---- MODULE Spec2Model ----
(***************************************************************************)
(* A model of chess.js (PGNReaderJS): the lexer, the parser, the board and *)
(* the interpreter of readPGN, as a state machine.                         *)
(*                                                                         *)
(* Text is a sequence of one-character strings; every string value of the  *)
(* program (token values, squares, board cells) is such a sequence.        *)
(* Arrays of arrays are modelled with a heap of rows, so that sharing a    *)
(* row between two boards is a thing the model can express.                *)
(***************************************************************************)
EXTENDS Integers, Sequences, FiniteSets, TLC

VARIABLES data, pc, lexer, temp, parser, nodes, node_i, interp, heap, bd, error,
          shown

vars == <<data, pc, lexer, temp, parser, nodes, node_i, interp, heap, bd, error, shown>>

\* ------------------------------------------------------------------------
\* Characters and strings
\* ------------------------------------------------------------------------

\* JavaScript null / undefined, as values no text can contain
NULL == "null"
UNDEF == <<"undefined">>
\* null where the other values are strings
null == <<"null">>

\* '\n'
NL == "\n"

Max(a, b) == IF a > b THEN a ELSE b
Min(a, b) == IF a < b THEN a ELSE b

\* String.prototype.toLowerCase on one character
toLowerCase(c) ==
    CASE c = "A" -> "a" [] c = "B" -> "b" [] c = "C" -> "c" [] c = "D" -> "d"
      [] c = "E" -> "e" [] c = "F" -> "f" [] c = "G" -> "g" [] c = "H" -> "h"
      [] c = "I" -> "i" [] c = "J" -> "j" [] c = "K" -> "k" [] c = "L" -> "l"
      [] c = "M" -> "m" [] c = "N" -> "n" [] c = "O" -> "o" [] c = "P" -> "p"
      [] c = "Q" -> "q" [] c = "R" -> "r" [] c = "S" -> "s" [] c = "T" -> "t"
      [] c = "U" -> "u" [] c = "V" -> "v" [] c = "W" -> "w" [] c = "X" -> "x"
      [] c = "Y" -> "y" [] c = "Z" -> "z"
      [] OTHER -> c

\* this.alpha, this.num, this.symbols of the lexer
alpha == {"a", "b", "c", "d", "e", "f", "g", "h", "r", "n", "q", "k"}
num == {"1", "2", "3", "4", "5", "6", "7", "8", "9", "0"}
symbols == {"/", "+", "#", "!", "?", "x"}

VALID_PIECE_LETTERS == {<<"R">>, <<"N">>, <<"B">>, <<"Q">>, <<"K">>, <<"O">>}

\* files.indexOf(c): 0..7, or -1 when c is not one of a..h
indexOf(c) ==
    CASE c = "a" -> 0 [] c = "b" -> 1 [] c = "c" -> 2 [] c = "d" -> 3
      [] c = "e" -> 4 [] c = "f" -> 5 [] c = "g" -> 6 [] c = "h" -> 7
      [] OTHER -> -1

files == <<"a", "b", "c", "d", "e", "f", "g", "h">>

\* Number(c) of a one-digit string
DigitVal(c) ==
    CASE c = "0" -> 0 [] c = "1" -> 1 [] c = "2" -> 2 [] c = "3" -> 3
      [] c = "4" -> 4 [] c = "5" -> 5 [] c = "6" -> 6 [] c = "7" -> 7
      [] c = "8" -> 8 [] c = "9" -> 9

\* String(n) of a number -1..9, as text
DigitStr(n) ==
    CASE n = 0 -> <<"0">> [] n = 1 -> <<"1">> [] n = 2 -> <<"2">>
      [] n = 3 -> <<"3">> [] n = 4 -> <<"4">> [] n = 5 -> <<"5">>
      [] n = 6 -> <<"6">> [] n = 7 -> <<"7">> [] n = 8 -> <<"8">>
      [] n = 9 -> <<"9">> [] n = -1 -> <<"-", "1">>
      [] OTHER -> <<"1", "0">>

\* s.substring(a, b) with 0-based a, b
substring(s, a, b) ==
    LET lo == Min(Max(Min(a, b), 0), Len(s))
        hi == Min(Max(Max(a, b), 0), Len(s))
    IN  SubSeq(s, lo + 1, hi)

\* ------------------------------------------------------------------------
\* Tokens
\* ------------------------------------------------------------------------

TT_DOT == "DOT"
TT_LETTER == "LETTER"
TT_NUM == "NUM"
TT_SLASH == "SLASH"
TT_MOVE_NUM == "MOVE_NUM"
TT_RES == "RESULT"
TT_GAME_DATA == "GAME_DATA"
TT_EQUALS == "EQUALS"
TT_CASTLE_KING == "CASTLE_KING_SIDE"
TT_CASTLE_QUEEN == "CASTLE_QUEEN_SIDE"
TT_BLACK_MOVE == "BLACK_MOVE_SINGLE"

PGNToken(type, value) ==
    [type |-> type, value |-> value, header_type |-> <<>>, header_value |-> <<>>]

PGNHeaderToken(header_type, header_value) ==
    [type |-> TT_GAME_DATA, value |-> <<>>,
     header_type |-> header_type, header_value |-> header_value]

\* ------------------------------------------------------------------------
\* Errors
\* ------------------------------------------------------------------------

NoError == [kind |-> "none", line |-> 0, col |-> 0]

\* an argument the constructor was not given
NOT_GIVEN == -1

LexerError(line, col) == [kind |-> "LexerError", line |-> line, col |-> col]
ParserError == [kind |-> "ParserError", line |-> 0, col |-> 0]
InterpretError == [kind |-> "InterpretError", line |-> 0, col |-> 0]
\* the exception the JavaScript runtime raises on a property of undefined
TypeError == [kind |-> "TypeError", line |-> 0, col |-> 0]

\* ------------------------------------------------------------------------
\* PGNLexer
\* ------------------------------------------------------------------------

\* this.curr_token when this.curr_token_index = i
Char(d, i) == IF i >= 0 /\ i < Len(d) THEN d[i + 1] ELSE NULL

previewAdvance(d, i) == Char(d, i + 1)
doublePreviewAdvance(d, i) == Char(d, i + 2)

PGNLexer == [curr_token_index |-> -1, line_num |-> 1, col_num |-> 1, tokens |-> <<>>]

NoTemp == [curr_token_index |-> -1, res |-> <<>>, curr |-> 0, draw_result |-> FALSE]

RECURSIVE makeNumber(_, _, _)
\* the digits from index i on, with the index after them
makeNumber(d, i, n) ==
    IF Char(d, i) \in num
    THEN makeNumber(d, i + 1, Append(n, Char(d, i)))
    ELSE [num |-> n, i |-> i]

canMakeBlackCheck(d, i) ==
    previewAdvance(d, i) = "." /\ doublePreviewAdvance(d, i) = "."

RECURSIVE gameDataLoop(_, _, _, _, _, _, _)
gameDataLoop(d, i, line, col, name, value, touched) ==
    LET c == Char(d, i) IN
    IF c = NULL
    THEN [err |-> LexerError(line, col), i |-> i, col |-> col, tok |-> PGNToken("", <<>>)]
    ELSE IF c = NL
    THEN [err |-> LexerError(line, col), i |-> i, col |-> col, tok |-> PGNToken("", <<>>)]
    ELSE IF c = "]"
    THEN [err |-> NoError, i |-> i + 1, col |-> col + 1, tok |-> PGNHeaderToken(name, value)]
    ELSE IF c = " " /\ ~touched
    THEN gameDataLoop(d, i + 1, line, col + 1, name, value, TRUE)
    ELSE IF ~touched
    THEN gameDataLoop(d, i + 1, line, col + 1, Append(name, c), value, touched)
    ELSE gameDataLoop(d, i + 1, line, col + 1, name, Append(value, c), touched)

\* the current character is '['
makeGameData(d, i, line, col) ==
    IF Char(d, i + 1) = NULL
    THEN [err |-> LexerError(line, col + 1), i |-> i + 1, col |-> col + 1, tok |-> PGNToken("", <<>>)]
    ELSE gameDataLoop(d, i + 1, line, col + 1, <<>>, <<>>, FALSE)

\* the current character is 'o' or 'O'
makeCastleToken(d, i, col) ==
    LET bad(l, c) == [err |-> LexerError(l, c), i |-> i, col |-> col, tok |-> PGNToken("", <<>>)] IN
    IF Char(d, i + 1) # "-" THEN bad(0, 0)
    ELSE IF Char(d, i + 2) = NULL THEN bad(0, 0)
    ELSE IF toLowerCase(Char(d, i + 2)) # "o" THEN bad(0, 0)
    ELSE IF Char(d, i + 3) = NULL \/ Char(d, i + 3) # "-"
    THEN [err |-> NoError, i |-> i + 3, col |-> col + 3, tok |-> PGNToken(TT_CASTLE_KING, <<>>)]
    ELSE IF Char(d, i + 4) = NULL \/ toLowerCase(Char(d, i + 4)) # "o"
    THEN bad(NOT_GIVEN, NOT_GIVEN)
    ELSE [err |-> NoError, i |-> i + 5, col |-> col + 5, tok |-> PGNToken(TT_CASTLE_QUEEN, <<>>)]

RECURSIVE skipAnalysisLoop(_, _, _, _)
skipAnalysisLoop(d, i, line, col) ==
    LET c == Char(d, i) IN
    IF c = NULL THEN [err |-> LexerError(line, col), i |-> i, col |-> col]
    ELSE IF c = "}" THEN [err |-> NoError, i |-> i + 1, col |-> col + 1]
    ELSE IF c = NL THEN [err |-> LexerError(line, col), i |-> i, col |-> col]
    ELSE skipAnalysisLoop(d, i + 1, line, col + 1)

\* the current character is '{'
skipAnalysis(d, i, line, col) == skipAnalysisLoop(d, i + 1, line, col + 1)

RECURSIVE skipAltMovesLoop(_, _, _, _)
skipAltMovesLoop(d, i, line, col) ==
    LET c == Char(d, i) IN
    IF c = NULL THEN [err |-> LexerError(line, col), i |-> i, col |-> col]
    ELSE IF c = ")" THEN [err |-> NoError, i |-> i + 1, col |-> col + 1]
    ELSE IF c = "("
    THEN LET inner == skipAltMovesLoop(d, i + 1, line, col + 1) IN
         IF inner.err # NoError THEN inner
         ELSE skipAltMovesLoop(d, inner.i, line, inner.col)
    ELSE IF c = NL THEN [err |-> LexerError(line, col), i |-> i, col |-> col]
    ELSE skipAltMovesLoop(d, i + 1, line, col + 1)

\* the current character is '('
skipAltMoves(d, i, line, col) == skipAltMovesLoop(d, i + 1, line, col + 1)

\* What one pass of the loop of makeTokens does to the lexer lx on text d.
\* The result names the next position of readPGN: "lex" (loop again), "scan"
\* (inside the loop of canMakeResult, with temp set up), "parse" (the loop
\* ended and the tokens are returned) or "rejected" (a LexerError was thrown).
makeTokens(d, lx) ==
    LET i == lx.curr_token_index
        c == Char(d, i)
        same == [pc |-> "lex", lx |-> lx, temp |-> NoTemp, err |-> NoError]
        go(j, col) == [same EXCEPT !.lx.curr_token_index = j, !.lx.col_num = col]
        push(j, col, tok) == [same EXCEPT !.lx.curr_token_index = j, !.lx.col_num = col,
                                          !.lx.tokens = Append(lx.tokens, tok)]
        throw(e) == [same EXCEPT !.pc = "rejected", !.err = e]
        sub(r) == IF r.err # NoError THEN throw(r.err) ELSE go(r.i, r.col)
        subtok(r) == IF r.err # NoError THEN throw(r.err) ELSE push(r.i, r.col, r.tok)
    IN
    IF c = NULL THEN [same EXCEPT !.pc = "parse"]
    ELSE IF c = " " THEN go(i + 1, lx.col_num + 1)
    ELSE IF c = NL
    THEN [same EXCEPT !.lx.line_num = lx.line_num + 1, !.lx.col_num = 1,
                      !.lx.curr_token_index = i + 1]
    ELSE IF c \in num
    THEN LET m == makeNumber(d, i + 1, <<c>>)
             col == lx.col_num + Len(m.num)
         IN
         IF Char(d, m.i) = "."
         THEN IF canMakeBlackCheck(d, m.i)
              THEN push(m.i + 3, col + 3, PGNToken(TT_BLACK_MOVE, m.num))
              ELSE push(m.i + 1, col + 1, PGNToken(TT_MOVE_NUM, m.num))
         ELSE IF Len(m.num) = 1
         THEN \* unadvance(), then canMakeResult() up to its loop
              IF previewAdvance(d, m.i - 1) = NULL
              THEN push(m.i, col, PGNToken(TT_NUM, m.num))
              ELSE [same EXCEPT !.pc = "scan", !.lx.curr_token_index = m.i - 1,
                                !.lx.col_num = col,
                                !.temp = [curr_token_index |-> m.i, res |-> m.num,
                                          curr |-> col + 1, draw_result |-> FALSE]]
         ELSE push(m.i, col, PGNToken(TT_NUM, m.num))
    ELSE IF toLowerCase(c) \in alpha THEN push(i + 1, lx.col_num + 1, PGNToken(TT_LETTER, <<c>>))
    ELSE IF c = "." THEN push(i + 1, lx.col_num + 1, PGNToken(TT_DOT, <<".">>))
    ELSE IF c = "/" THEN push(i + 1, lx.col_num + 1, PGNToken(TT_SLASH, <<"/">>))
    ELSE IF c \in symbols THEN go(i + 1, lx.col_num + 1)
    ELSE IF c = "[" THEN subtok(makeGameData(d, i, lx.line_num, lx.col_num))
    ELSE IF c = "=" THEN push(i + 1, lx.col_num + 1, PGNToken(TT_EQUALS, <<"=">>))
    ELSE IF toLowerCase(c) = "o" THEN subtok(makeCastleToken(d, i, lx.col_num))
    ELSE IF c = "{" THEN sub(skipAnalysis(d, i, lx.line_num, lx.col_num))
    ELSE IF c = "(" THEN sub(skipAltMoves(d, i, lx.line_num, lx.col_num))
    ELSE throw(LexerError(lx.line_num, lx.col_num))

\* What one pass of the loop of canMakeResult does, the lexer being lx and
\* the cloned cursor t. Leaving the loop (break, or the clone at the end of
\* the text) commits the clone and pushes the result token; a return of null
\* is followed by makeTokens' advance() and its push of the number token.
canMakeResult(d, lx, t) ==
    LET c == Char(d, t.curr_token_index)
        n == Len(t.res)
        same == [pc |-> "scan", lx |-> lx, temp |-> t, err |-> NoError]
        step(r) == [same EXCEPT !.temp.curr_token_index = t.curr_token_index + 1,
                                !.temp.curr = t.curr + 1, !.temp.res = r]
        none == [same EXCEPT !.pc = "lex", !.temp = NoTemp,
                             !.lx.curr_token_index = lx.curr_token_index + 1,
                             !.lx.tokens = Append(lx.tokens, PGNToken(TT_NUM, <<Char(d, lx.curr_token_index)>>))]
        done(r, j, col) == [same EXCEPT !.pc = "lex", !.temp = NoTemp,
                                        !.lx.curr_token_index = j, !.lx.col_num = col,
                                        !.lx.tokens = Append(lx.tokens, PGNToken(TT_RES, r))]
        expect(ch) == IF c # ch THEN none ELSE step(Append(t.res, ch))
    IN
    IF c = NULL THEN done(t.res, t.curr_token_index, t.curr)
    ELSE IF c = " " THEN step(t.res)
    ELSE IF t.res = <<"1">> /\ c = "/"
    THEN [step(Append(t.res, "/")) EXCEPT !.temp.draw_result = TRUE]
    ELSE IF t.draw_result
    THEN IF n = 2 \/ n = 6
         THEN IF c # "2" THEN none
              ELSE IF n + 1 = 6
                   THEN done(Append(t.res, "2"), t.curr_token_index + 1, t.curr + 1)
                   ELSE step(Append(t.res, "2"))
         ELSE IF n = 3 THEN expect("-")
         ELSE IF n = 4 THEN expect("1")
         ELSE IF n = 5 THEN expect("/")
         ELSE same
    ELSE IF n = 1 THEN expect("-")
         ELSE IF n = 2
         THEN IF c # "0" /\ c # "1" THEN none
              ELSE done(Append(t.res, c), t.curr_token_index + 1, t.curr + 1)
         ELSE same

\* ------------------------------------------------------------------------
\* PGNParser
\* ------------------------------------------------------------------------

\* the constructor drops the black-move markers
fixed_tokens(toks) == SelectSeq(toks, LAMBDA t : t.type # TT_BLACK_MOVE)

\* the parser after parse()'s first advance(); curr is FALSE when
\* this.curr_token is null
PGNParser(toks) ==
    [tokens |-> fixed_tokens(toks),
     token_index |-> IF Len(fixed_tokens(toks)) = 0 THEN -1 ELSE 0,
     curr |-> Len(fixed_tokens(toks)) > 0]

\* this.curr_token, for a parser whose curr_token is not null
Tok(p) == p.tokens[p.token_index + 1]

\* advance(): the index stays where it is when no token is left
advance(p) ==
    IF p.token_index + 1 >= Len(p.tokens)
    THEN [p EXCEPT !.curr = FALSE]
    ELSE [p EXCEPT !.token_index = p.token_index + 1, !.curr = TRUE]

IsType(p, ty) == p.curr /\ Tok(p).type = ty

NoMove == [piece_type |-> <<>>, target_square |-> <<>>, from_rank |-> null, from_file |-> null]

CastleMove(side) == [NoMove EXCEPT !.piece_type = side]

\* One half-move of parseMove's loop that is not a castle, the current token
\* being neither null, a move number nor a result. The result is the parser
\* after the half-move and the half-move, or ok = FALSE for a ParserError.
parseHalf(p) ==
    LET bad == [ok |-> FALSE, p |-> p, mv |-> NoMove]
        piece_char == Tok(p).value
    IN
    IF piece_char \in VALID_PIECE_LETTERS
    THEN LET p1 == advance(p) IN
         IF ~p1.curr THEN bad
         ELSE IF Tok(p1).type # TT_LETTER /\ Tok(p1).type # TT_NUM THEN bad
         ELSE LET \* the disambiguators and the target file: <<ok, parser, f1, f2, r2>>
                  d == IF Tok(p1).type = TT_LETTER
                       THEN LET p2 == advance(p1) IN
                            IF ~p2.curr THEN <<FALSE, p2, null, null, null>>
                            ELSE IF Tok(p2).type = TT_LETTER
                            THEN LET p3 == advance(p2) IN
                                 <<p3.curr, p3, Tok(p2).value, Tok(p1).value, null>>
                            ELSE <<TRUE, p2, Tok(p1).value, null, null>>
                       ELSE LET p2 == advance(p1) IN
                            IF ~p2.curr THEN <<FALSE, p2, null, null, null>>
                            ELSE IF Tok(p2).type # TT_LETTER THEN <<FALSE, p2, null, null, null>>
                            ELSE LET p3 == advance(p2) IN
                                 <<p3.curr, p3, Tok(p2).value, null, Tok(p1).value>>
              IN
              IF ~d[1] THEN bad
              ELSE IF Tok(d[2]).type # TT_NUM THEN bad
              ELSE [ok |-> TRUE, p |-> advance(d[2]),
                    mv |-> [piece_type |-> piece_char,
                            target_square |-> d[3] \o Tok(d[2]).value,
                            from_file |-> d[4], from_rank |-> d[5]]]
    ELSE \* pawn move
         IF Tok(p).type # TT_LETTER THEN bad
         ELSE LET p1 == advance(p) IN
              IF ~p1.curr THEN bad
              ELSE LET capture == Tok(p1).type = TT_LETTER
                       p2 == IF capture THEN advance(p1) ELSE p1
                       f1 == IF capture THEN Tok(p1).value ELSE Tok(p).value
                       f2 == IF capture THEN Tok(p).value ELSE null
                   IN
                   IF ~p2.curr THEN bad
                   ELSE IF Tok(p2).type # TT_NUM THEN bad
                   ELSE LET p3 == advance(p2)
                            sq == f1 \o Tok(p2).value
                        IN
                        IF IsType(p3, TT_EQUALS)
                        THEN LET p4 == advance(p3) IN
                             IF ~p4.curr THEN bad
                             ELSE IF Tok(p4).type # TT_LETTER THEN bad
                             ELSE [ok |-> TRUE, p |-> advance(p4),
                                   mv |-> [piece_type |-> <<"P">>, target_square |-> sq,
                                           from_file |-> f2, from_rank |-> Tok(p4).value]]
                        ELSE [ok |-> TRUE, p |-> p3,
                              mv |-> [piece_type |-> <<"P">>, target_square |-> sq,
                                      from_file |-> f2, from_rank |-> null]]

\* the condition of parseMove's loop
InMove(p) == p.curr /\ Tok(p).type # TT_MOVE_NUM /\ Tok(p).type # TT_RES

\* one pass of parseMove's loop: a castle token or parseHalf
parseHalfOrCastle(p) ==
    IF Tok(p).type = TT_CASTLE_KING
    THEN [ok |-> TRUE, p |-> advance(p), mv |-> CastleMove(<<"castle_king">>)]
    ELSE IF Tok(p).type = TT_CASTLE_QUEEN
    THEN [ok |-> TRUE, p |-> advance(p), mv |-> CastleMove(<<"castle_queen">>)]
    ELSE parseHalf(p)

PGNDetail(type, value) ==
    [node_type |-> "detail", type |-> type, value |-> value,
     white_move |-> NoMove, black_move |-> NoMove, has_black |-> FALSE, res |-> <<>>]

PGNMove(white_move, black_move, has_black) ==
    [node_type |-> "move", type |-> <<>>, value |-> <<>>,
     white_move |-> white_move, black_move |-> black_move, has_black |-> has_black,
     res |-> <<>>]

PGNResult(res) ==
    [node_type |-> "result", type |-> <<>>, value |-> <<>>,
     white_move |-> NoMove, black_move |-> NoMove, has_black |-> FALSE, res |-> res]

\* parseMove: the current token is the move number. The loop runs at most
\* twice, once for the white half and once for the black half, which breaks.
parseMove(p0) ==
    LET p == advance(p0)
        bad == [ok |-> FALSE, p |-> p, node |-> PGNMove(NoMove, NoMove, FALSE)]
        \* the second pass, after the white half w
        black(w, b) ==
            IF ~b.ok THEN bad
            ELSE [ok |-> TRUE, p |-> b.p, node |-> PGNMove(w.mv, b.mv, TRUE)]
        \* the first pass
        white(w) ==
            IF ~w.ok THEN bad
            ELSE IF ~InMove(w.p) THEN [ok |-> TRUE, p |-> w.p, node |-> PGNMove(w.mv, NoMove, FALSE)]
            ELSE black(w, parseHalfOrCastle(w.p))
    IN
    IF ~InMove(p) THEN [ok |-> TRUE, p |-> p, node |-> PGNMove(NoMove, NoMove, FALSE)]
    ELSE white(parseHalfOrCastle(p))

\* parseDetail: the current token is a header token
parseDetail(p) ==
    LET hv == Tok(p).header_value
        start_char == substring(hv, 0, 1)
        \* substring(this.curr_token.value.length - 1): the value of a header
        \* token is '', so this is substring(-1), the whole header value
        end_char == substring(hv, Len(Tok(p).value) - 1, Len(hv))
    IN
    IF Len(hv) <= 1 THEN [ok |-> FALSE, p |-> p, node |-> PGNDetail(<<>>, <<>>)]
    ELSE IF start_char # <<"\"">> /\ end_char # <<"\"">>
    THEN [ok |-> FALSE, p |-> p, node |-> PGNDetail(<<>>, <<>>)]
    ELSE [ok |-> TRUE, p |-> advance(p),
          node |-> PGNDetail(Tok(p).header_type, substring(hv, 1, Len(hv) - 1))]

\* one pass of the loop of parse(), the current token not being null
parse(p) ==
    IF Tok(p).type = TT_GAME_DATA THEN parseDetail(p)
    ELSE IF Tok(p).type = TT_MOVE_NUM THEN parseMove(p)
    ELSE IF Tok(p).type = TT_RES
    THEN [ok |-> TRUE, p |-> advance(p), node |-> PGNResult(Tok(p).value)]
    ELSE [ok |-> FALSE, p |-> p, node |-> PGNDetail(<<>>, <<>>)]

\* ------------------------------------------------------------------------
\* PGNBoard
\* ------------------------------------------------------------------------

\* the cells: '&nbsp;' and '' both stand for an empty square
NBSP == <<"&", "n", "b", "s", "p", ";">>
EMPTY == <<>>

Piece(color, kind) == <<color, kind>>

order == <<"R", "N", "B", "Q", "K", "B", "N", "R">>

\* the eight rows of the starting position, row 1 being rank 1
makeStartingPosition ==
    [r \in 1..8 |->
        [f \in 1..8 |->
            CASE r = 1 -> Piece("W", order[f])
              [] r = 2 -> Piece("W", "P")
              [] r = 7 -> Piece("B", "P")
              [] r = 8 -> Piece("B", order[f])
              [] OTHER -> NBSP]]

\* A board is eight addresses of rows in the heap h; Grid is what it holds.
Grid(h, b) == [r \in 1..8 |-> h[b[r]]]

RowOK(r) == r >= 0 /\ r <= 7

\* bd[r][f], for a row r that exists; a column that does not is undefined
Cell(g, r, f) == IF f >= 0 /\ f <= 7 THEN g[r + 1][f + 1] ELSE UNDEF

\* bd[r][f] = v on the board b of the heap h; outside 0..7 the column is a
\* property of the row that no copy keeps
SetCell(h, b, r, f, v) ==
    IF f >= 0 /\ f <= 7 THEN [h EXCEPT ![b[r + 1]][f + 1] = v] ELSE h

\* new PGNBoard(): the heap holds the rows of the starting position
PGNBoard ==
    [memory_boards |-> << <<1, 2, 3, 4, 5, 6, 7, 8>> >>, key_position |-> 0,
     header |-> <<>>, result_str |-> <<"0", "-", "0">>, en_passant |-> FALSE]

\* the last board of memory_boards
Last(boards) == boards[Len(boards)]

\* a copy of the board a that shares its rows with a
fresh_shallow(h, a) == [h |-> h, b |-> a]

\* fresh(): a copy of the board a, row by row
fresh(h, a) ==
    [h |-> h \o [i \in 1..8 |-> h[a[i]]],
     b |-> [i \in 1..8 |-> Len(h) + i]]

RECURSIVE NumVal(_)
\* Number(s) of a string of digits
NumVal(s) == IF Len(s) = 0 THEN 0 ELSE 10 * NumVal(SubSeq(s, 1, Len(s) - 1)) + DigitVal(s[Len(s)])

\* isNaN(s) of a string that is a letter or a string of digits
isNaN(s) == s[1] \notin num

\* Number(sq.substring(1, 2)) of a square whose second character is a digit
RankOf(sq) == DigitVal(sq[2])

\* an origin square that keeps its piece
vacate_keep(h, b, fr, ff) == h

\* bd[fr][ff] = '&nbsp;': the origin square is emptied
vacate(h, b, fr, ff) == SetCell(h, b, fr, ff, NBSP)

\* a passed pawn that stays on the board
takePassed_never(h, b, fr, tf, en_passant) == h

\* if(this.en_passant) bd[fr][tf] = '&nbsp;': the passed pawn is taken
takePassed(h, b, fr, tf, en_passant) ==
    IF en_passant THEN SetCell(h, b, fr, tf, NBSP) ELSE h

\* move() leaving this.en_passant as it finds it
move_keep(h, b, from, to, promote, en_passant) ==
    LET ff == indexOf(toLowerCase(from[1]))
        fr == RankOf(from) - 1
        tf == indexOf(toLowerCase(to[1]))
        tr == RankOf(to) - 1
        bad == [err |-> TypeError, h |-> h, en_passant |-> en_passant]
        placed(piece_before) ==
            IF promote # null
            THEN SetCell(vacate(h, b, fr, ff), b, tr, tf, substring(piece_before, 0, 1) \o promote)
            ELSE SetCell(vacate(h, b, fr, ff), b, tr, tf, piece_before)
    IN
    IF ~RowOK(fr) \/ ~RowOK(tr) THEN bad
    ELSE IF promote # null /\ Cell(Grid(h, b), fr, ff) = UNDEF THEN bad
    ELSE [err |-> NoError,
          h |-> takePassed(placed(Cell(Grid(h, b), fr, ff)), b, fr, tf, en_passant),
          en_passant |-> en_passant]

\* move(from, to, bd, promote) on the board b of the heap h, en_passant being
\* this.en_passant; err is TypeError when a row that does not exist is indexed
move(h, b, from, to, promote, en_passant) ==
    LET ff == indexOf(toLowerCase(from[1]))
        fr == RankOf(from) - 1
        tf == indexOf(toLowerCase(to[1]))
        tr == RankOf(to) - 1
        bad == [err |-> TypeError, h |-> h, en_passant |-> en_passant]
    IN
    IF ~RowOK(fr) THEN bad
    ELSE LET piece_before == Cell(Grid(h, b), fr, ff)
             h1 == vacate(h, b, fr, ff)
         IN
         IF ~RowOK(tr) THEN bad
         ELSE LET h2 == SetCell(h1, b, tr, tf, piece_before) IN
              IF promote # null /\ piece_before = UNDEF THEN bad
              ELSE LET h3 == IF promote # null
                             THEN SetCell(h2, b, tr, tf, substring(piece_before, 0, 1) \o promote)
                             ELSE h2
                   IN [err |-> NoError,
                       h |-> takePassed(h3, b, fr, tf, en_passant),
                       en_passant |-> FALSE]

Pos(file, rank, ep) == [kind |-> "pos", sq |-> file \o DigitStr(rank), ep |-> ep]
Thrown == [kind |-> "TypeError", sq |-> <<>>, ep |-> FALSE]
NotFound == [kind |-> "null", sq |-> <<>>, ep |-> FALSE]
Found(sq) == [kind |-> "pos", sq |-> sq, ep |-> FALSE]

\* findPawn(from_file, target_square, color) on the position g; ep tells
\* whether it sets this.en_passant
findPawn(g, from_file, target_square, color) ==
    LET file_loc == indexOf(from_file[1])
        tf_loc == indexOf(target_square[1])
        same_file == toLowerCase(from_file[1]) = toLowerCase(target_square[1])
        n == RankOf(target_square)
    IN
    IF color = "W"
    THEN LET from_rank == n - 1
             rest == IF same_file THEN Pos(from_file, from_rank, FALSE)
                        ELSE IF ~RowOK(from_rank - 1) THEN Thrown
                        ELSE Pos(from_file, from_rank,
                                 Cell(g, from_rank - 1, tf_loc) = Piece("B", "P"))
         IN
         IF ~RowOK(from_rank) THEN Thrown
         ELSE IF Cell(g, from_rank, file_loc) = NBSP /\ same_file
         THEN IF ~RowOK(from_rank - 1) THEN Thrown
              ELSE IF Cell(g, from_rank - 1, file_loc) = Piece("W", "P")
              THEN Pos(from_file, from_rank, FALSE)
              ELSE IF from_rank - 1 = 2 THEN Pos(from_file, from_rank - 1, FALSE)
              ELSE rest
         ELSE rest
    ELSE LET from_rank == n
             rest == IF same_file THEN Pos(from_file, from_rank, FALSE)
                        ELSE IF ~RowOK(from_rank) THEN Thrown
                        ELSE Pos(from_file, from_rank + 1,
                                 Cell(g, from_rank, tf_loc) = Piece("W", "P"))
         IN
         IF ~RowOK(from_rank - 1) THEN Thrown
         ELSE IF Cell(g, from_rank - 1, file_loc) = NBSP /\ same_file
         THEN IF ~RowOK(from_rank) THEN Thrown
              ELSE IF Cell(g, from_rank, file_loc) = Piece("B", "P")
              THEN Pos(from_file, from_rank + 1, FALSE)
              ELSE IF from_rank + 2 = 7 THEN Pos(from_file, from_rank + 2, FALSE)
              ELSE rest
         ELSE rest

kingExists(g, check_file, check_rank, color) ==
    /\ check_file >= 0 /\ check_file < 8
    /\ check_rank >= 0 /\ check_rank < 8
    /\ Cell(g, check_rank, check_file) = Piece(color, "K")

\* the first index from k on at which the sequence of booleans s is true, or
\* its length + 1: the pass at which a loop returns
RECURSIVE FirstIndex(_, _)
FirstIndex(s, k) ==
    IF k > Len(s) THEN k
    ELSE IF s[k] THEN k
    ELSE FirstIndex(s, k + 1)

findKing(g, target_file, target_rank, color) ==
    LET tf_loc == indexOf(target_file)
        tr_loc == DigitVal(target_rank) - 1
        squares_check == << <<tf_loc - 1, tr_loc>>, <<tf_loc + 1, tr_loc>>,
                            <<tf_loc, tr_loc + 1>>, <<tf_loc, tr_loc - 1>>,
                            <<tf_loc - 1, tr_loc + 1>>, <<tf_loc + 1, tr_loc + 1>>,
                            <<tf_loc - 1, tr_loc - 1>>, <<tf_loc + 1, tr_loc - 1>> >>
        k == FirstIndex([j \in 1..8 |->
                            kingExists(g, squares_check[j][1], squares_check[j][2], color)], 1)
    IN
    IF k > 8 THEN NotFound
    ELSE Found(<<files[squares_check[k][1] + 1]>> \o DigitStr(squares_check[k][2] + 1))

\* the least element of a non-empty set of numbers
Least(S) == CHOOSE x \in S : \A y \in S : x <= y

\* findRook looking through whatever stands between the rook and the target
findRook_through(g, target_file, target_rank, color, specification, p_check) ==
    LET tf_loc == indexOf(target_file)
        tr_loc == DigitVal(target_rank) - 1
        R == {i \in 0..7 : Cell(g, tr_loc, i) = Piece(color, p_check)}
        F == {i \in 0..7 : Cell(g, i, tf_loc) = Piece(color, p_check)}
    IN
    IF ~RowOK(tr_loc) THEN Thrown
    ELSE IF R # {} THEN Found(<<files[Least(R) + 1], target_rank>>)
    ELSE IF F # {} THEN Found(<<target_file>> \o DigitStr(Least(F) + 1))
    ELSE NotFound

\* findRook(target_file, target_rank, color, specification, p_check) on g
findRook(g, target_file, target_rank, color, specification, p_check) ==
    LET tf_loc == indexOf(target_file)
        tr_loc == DigitVal(target_rank) - 1
        \* the scan of the target's rank returns at column i
        rank_hit(i) ==
            /\ Cell(g, tr_loc, i) = Piece(color, p_check)
            /\ IF specification = null
               THEN IF tf_loc < i
                    THEN \A z \in (tf_loc + 1)..(i - 1) : Cell(g, tr_loc, z) = NBSP
                    ELSE \A z \in (i + 1)..(tf_loc - 1) : Cell(g, tr_loc, z) = NBSP
               ELSE IF isNaN(specification)
               THEN <<files[i + 1]>> = specification
               ELSE NumVal(specification) = DigitVal(target_rank)
        \* the scan of the target's file returns at row i
        file_hit(i) ==
            /\ Cell(g, i, tf_loc) = Piece(color, p_check)
            /\ IF specification = null
               THEN \A z \in (Min(i, tr_loc) + 1)..(Max(i, tr_loc) - 1) :
                        Cell(g, z, tf_loc) = NBSP
               ELSE IF isNaN(specification)
               THEN <<target_file>> = specification
               ELSE NumVal(specification) = i + 1
        R == {i \in 0..7 : rank_hit(i)}
        F == {i \in 0..7 : file_hit(i)}
    IN
    IF ~RowOK(tr_loc) THEN Thrown
    ELSE IF R # {} THEN Found(<<files[Least(R) + 1], target_rank>>)
    ELSE IF F # {} THEN Found(<<target_file>> \o DigitStr(Least(F) + 1))
    ELSE NotFound

RECURSIVE bishopPartition(_, _, _, _, _, _, _, _, _, _)
bishopPartition(g, i, z, i_increment, z_increment, i_stop, z_stop, color, specification, p_check) ==
    IF ~(i # i_stop /\ z # z_stop) THEN NotFound
    ELSE IF ~RowOK(z) THEN Thrown
    ELSE IF /\ Cell(g, z, i) = Piece(color, p_check)
            /\ IF specification = null THEN TRUE
               ELSE IF isNaN(specification) THEN <<files[i + 1]>> = specification
               ELSE z + 1 = NumVal(specification)
    THEN Found(<<files[i + 1]>> \o DigitStr(z + 1))
    ELSE bishopPartition(g, i + i_increment, z + z_increment, i_increment, z_increment,
                         i_stop, z_stop, color, specification, p_check)

findBishop(g, target_file, target_rank, color, specification, p_check) ==
    LET tf_loc == indexOf(target_file)
        tr_loc == DigitVal(target_rank) - 1
        ul == bishopPartition(g, tf_loc, tr_loc, -1, 1, -1, 8, color, specification, p_check)
        ur == bishopPartition(g, tf_loc, tr_loc, 1, 1, 8, 8, color, specification, p_check)
        dl == bishopPartition(g, tf_loc, tr_loc, -1, -1, -1, -1, color, specification, p_check)
        dr == bishopPartition(g, tf_loc, tr_loc, 1, -1, 8, -1, color, specification, p_check)
    IN
    IF ul # NotFound THEN ul
    ELSE IF ur # NotFound THEN ur
    ELSE IF dl # NotFound THEN dl
    ELSE dr

findQueen(g, target_file, target_rank, color, specification) ==
    LET r == findRook(g, target_file, target_rank, color, specification, "Q") IN
    IF r # NotFound THEN r
    ELSE findBishop(g, target_file, target_rank, color, specification, "Q")

\* findKnight returning the first knight it meets, whatever the specification
findKnight_first(g, target_file, target_rank, color, specification) ==
    LET tf_loc == indexOf(target_file)
        tr_loc == DigitVal(target_rank) - 1
        all == << <<tf_loc - 2, tr_loc + 1>>, <<tf_loc - 1, tr_loc + 2>>,
                  <<tf_loc + 1, tr_loc + 2>>, <<tf_loc + 2, tr_loc + 1>>,
                  <<tf_loc - 2, tr_loc - 1>>, <<tf_loc - 1, tr_loc - 2>>,
                  <<tf_loc + 1, tr_loc - 2>>, <<tf_loc + 2, tr_loc - 1>> >>
        squares_explore ==
            SelectSeq(all, LAMBDA sq : sq[1] >= 0 /\ sq[1] < 8 /\ sq[2] >= 0 /\ sq[2] < 8)
        k == FirstIndex([j \in 1..Len(squares_explore) |->
                Cell(g, squares_explore[j][2], squares_explore[j][1]) = Piece(color, "N")], 1)
    IN
    IF k > Len(squares_explore) THEN NotFound
    ELSE Found(<<files[squares_explore[k][1] + 1]>> \o DigitStr(squares_explore[k][2] + 1))

findKnight(g, target_file, target_rank, color, specification) ==
    LET tf_loc == indexOf(target_file)
        tr_loc == DigitVal(target_rank) - 1
        all == << <<tf_loc - 2, tr_loc + 1>>, <<tf_loc - 1, tr_loc + 2>>,
                  <<tf_loc + 1, tr_loc + 2>>, <<tf_loc + 2, tr_loc + 1>>,
                  <<tf_loc - 2, tr_loc - 1>>, <<tf_loc - 1, tr_loc - 2>>,
                  <<tf_loc + 1, tr_loc - 2>>, <<tf_loc + 2, tr_loc - 1>> >>
        \* each push is guarded by the two bounds its offsets can cross
        squares_explore ==
            SelectSeq(all, LAMBDA sq :
                /\ (sq[1] < tf_loc => sq[1] >= 0) /\ (sq[1] > tf_loc => sq[1] < 8)
                /\ (sq[2] < tr_loc => sq[2] >= 0) /\ (sq[2] > tr_loc => sq[2] < 8))
        hit(sq) ==
            /\ Cell(g, sq[2], sq[1]) = Piece(color, "N")
            /\ IF specification = null THEN TRUE
               ELSE IF isNaN(specification) THEN <<files[sq[1] + 1]>> = specification
               ELSE NumVal(specification) = sq[2] + 1
        k == FirstIndex([j \in 1..Len(squares_explore) |-> hit(squares_explore[j])], 1)
    IN
    IF k > Len(squares_explore) THEN NotFound
    ELSE Found(<<files[squares_explore[k][1] + 1]>> \o DigitStr(squares_explore[k][2] + 1))

\* ------------------------------------------------------------------------
\* PGNInterpreter
\* ------------------------------------------------------------------------

PGNInterpreter ==
    [white |-> <<>>, black |-> <<>>,
     white_king_moved |-> FALSE, black_king_moved |-> FALSE]

\* the header mapping with key k set to v unless it is set already
SetHeader_keep(header, k, v) ==
    [x \in (DOMAIN header) \cup {k} |-> IF x \in DOMAIN header THEN header[x] ELSE v]

\* the header mapping with key k set to v
SetHeader(header, k, v) ==
    [x \in (DOMAIN header) \cup {k} |-> IF x = k THEN v ELSE header[x]]

LowerStr(str) == [i \in 1..Len(str) |-> toLowerCase(str[i])]

\* The state the interpreter works on: the heap h, the board object b, the
\* interpreter's own fields it, and the error thrown, if any.
interpretDetail(st, i) ==
    LET key == LowerStr(i.type) IN
    [st EXCEPT !.it.white = IF key = <<"w", "h", "i", "t", "e">> THEN i.value ELSE @,
               !.it.black = IF key = <<"b", "l", "a", "c", "k">> THEN i.value ELSE @,
               !.b.header = SetHeader(@, key, i.value)]

\* the rank of the back row of a colour, as a row index
BackRow(color) == IF color = "W" THEN 0 ELSE 7

\* a castle that leaves the rook's corner as it was
applyCastle_corner(h, a, color, kingside) ==
    LET f == fresh(h, a)
        r == BackRow(color)
        set(hh, c, v) == SetCell(hh, f.b, r, c, v)
    IN
    IF kingside
    THEN [h |-> set(set(set(f.h, 4, EMPTY), 6, Piece(color, "K")), 5, Piece(color, "R")),
          b |-> f.b]
    ELSE [h |-> set(set(set(f.h, 4, EMPTY), 2, Piece(color, "K")), 3, Piece(color, "R")),
          b |-> f.b]

\* applyWhiteCastle(kingside) and applyBlackCastle(kingside): the same
\* four assignments on row 0 and on row 7
applyCastle(h, a, color, kingside) ==
    LET f == fresh(h, a)
        r == BackRow(color)
        set(hh, c, v) == SetCell(hh, f.b, r, c, v)
    IN
    IF kingside
    THEN [h |-> set(set(set(set(f.h, 4, EMPTY), 7, EMPTY), 6, Piece(color, "K")), 5, Piece(color, "R")),
          b |-> f.b]
    ELSE [h |-> set(set(set(set(f.h, 4, EMPTY), 0, EMPTY), 2, Piece(color, "K")), 3, Piece(color, "R")),
          b |-> f.b]

\* getMachineMove(move, color) on the position g: the origin square, null
\* for the empty array, or the TypeError of a find function
getMachineMove(g, mv, color) ==
    LET tf == mv.target_square[1]
        tr == mv.target_square[2]
        spec == IF mv.from_rank # null THEN mv.from_rank ELSE mv.from_file
        pt == mv.piece_type
    IN
    IF pt = <<"P">>
    THEN findPawn(g, IF mv.from_file # null THEN mv.from_file ELSE <<tf>>, mv.target_square, color)
    ELSE IF pt = <<"K">> THEN findKing(g, tf, tr, color)
    ELSE IF pt = <<"Q">> THEN findQueen(g, tf, tr, color, spec)
    ELSE IF pt = <<"R">> THEN findRook(g, tf, tr, color, spec, "R")
    ELSE IF pt = <<"B">> THEN findBishop(g, tf, tr, color, spec, "B")
    ELSE IF pt = <<"N">> THEN findKnight(g, tf, tr, color, spec)
    ELSE \* no branch fills machine_move: move() is called on undefined
         Thrown

king_moved(it, color) == IF color = "W" THEN it.white_king_moved ELSE it.black_king_moved

\* a flag that is kept for White only
set_king_moved_white(it, color) ==
    IF color = "W" THEN [it EXCEPT !.white_king_moved = TRUE] ELSE it

set_king_moved(it, color) ==
    IF color = "W" THEN [it EXCEPT !.white_king_moved = TRUE]
    ELSE [it EXCEPT !.black_king_moved = TRUE]

IsCastle(mv) == mv.piece_type \in {<<"castle_king">>, <<"castle_queen">>}

\* one half of interpretMove: the half-move mv of the side color
interpretHalf(st, mv, color) ==
    LET a == Last(st.b.memory_boards)
        \* the castle c is pushed and the king's flag set
        castled(c) ==
            [st EXCEPT !.h = c.h,
                       !.b.memory_boards = Append(@, c.b),
                       !.it = set_king_moved(@, color)]
        it1 == IF mv.piece_type = <<"K">> THEN set_king_moved(st.it, color) ELSE st.it
        should_promote == mv.piece_type = <<"P">> /\ mv.from_rank # null
        \* m is what move() did to the copy f, which is pushed if it returned
        moved(f, m) ==
            IF m.err # NoError
            THEN [st EXCEPT !.err = m.err, !.it = it1, !.b.en_passant = m.en_passant]
            ELSE [st EXCEPT !.h = m.h, !.it = it1,
                            !.b.en_passant = m.en_passant,
                            !.b.memory_boards = Append(@, f.b)]
        \* move() from the origin pos on the copy f
        copied(f, pos) ==
            moved(f, move(f.h, f.b, pos.sq, mv.target_square,
                          IF should_promote THEN mv.from_rank ELSE null,
                          st.b.en_passant \/ pos.ep))
        \* pos is what getMachineMove returned
        found(pos) ==
            IF pos.kind = "null" THEN [st EXCEPT !.err = InterpretError]
            ELSE IF pos.kind = "TypeError" THEN [st EXCEPT !.err = TypeError]
            ELSE copied(fresh(st.h, a), pos)
    IN
    IF IsCastle(mv)
    THEN IF king_moved(st.it, color) THEN [st EXCEPT !.err = InterpretError]
         ELSE castled(applyCastle(st.h, a, color, mv.piece_type = <<"castle_king">>))
    ELSE found(getMachineMove(Grid(st.h, a), mv, color))

\* an interpretMove that stops after the white half
interpretMove_white(st, i) == interpretHalf(st, i.white_move, "W")

\* interpretMove(i): the white half, then the black half if there is one
interpretMove(st, i) ==
    LET black(w) == IF w.err # NoError \/ ~i.has_black THEN w
                    ELSE interpretHalf(w, i.black_move, "B")
    IN black(interpretHalf(st, i.white_move, "W"))

\* one pass of the loop of interpret(), on the node i
interpret(st, i) ==
    IF i.node_type = "detail" THEN interpretDetail(st, i)
    ELSE IF i.node_type = "move" THEN interpretMove(st, i)
    ELSE [st EXCEPT !.b.result_str = i.res]

\* ------------------------------------------------------------------------
\* readPGN
\* ------------------------------------------------------------------------

\* the board, the heap and the interpreter before new PGNInterpreter(nodes)
NoBoard == [PGNBoard EXCEPT !.memory_boards = <<>>]

InterpState == [h |-> heap, b |-> bd, it |-> interp, err |-> NoError]

\* the position held by the k-th board of memory_boards
Snapshot(k) == Grid(heap, bd.memory_boards[k])

\* ------------------------------------------------------------------------
\* ChessBoard
\* ------------------------------------------------------------------------

\* the element before anything is rendered in it
NotRendered == <<>>

\* "&#98dd;"
Glyph(d1, d2) == <<"&", "#", "9", "8", d1, d2, ";">>

\* this.piece_readable.get(cell); undefined for a cell that is no key
piece_readable(cell) ==
    CASE cell = NBSP -> NBSP
      [] cell = Piece("W", "P") -> Glyph("1", "7")
      [] cell = Piece("W", "R") -> Glyph("1", "4")
      [] cell = Piece("W", "N") -> Glyph("1", "6")
      [] cell = Piece("W", "B") -> Glyph("1", "5")
      [] cell = Piece("W", "Q") -> Glyph("1", "3")
      [] cell = Piece("W", "K") -> Glyph("1", "2")
      [] cell = Piece("B", "P") -> Glyph("2", "3")
      [] cell = Piece("B", "R") -> Glyph("2", "0")
      [] cell = Piece("B", "N") -> Glyph("2", "2")
      [] cell = Piece("B", "B") -> Glyph("2", "1")
      [] cell = Piece("B", "Q") -> Glyph("1", "9")
      [] cell = Piece("B", "K") -> Glyph("1", "8")
      [] cell = EMPTY -> NBSP
      [] cell = <<" ">> -> NBSP
      [] OTHER -> UNDEF

\* the text pat lies in the text t from the index j on
At(t, j, pat) == j >= 1 /\ j + Len(pat) - 1 <= Len(t) /\ SubSeq(t, j, j + Len(pat) - 1) = pat

WordChars ==
    {"a", "b", "c", "d", "e", "f", "g", "h", "i", "j", "k", "l", "m", "n", "o", "p",
     "q", "r", "s", "t", "u", "v", "w", "x", "y", "z", "0", "1", "2", "3", "4", "5",
     "6", "7", "8", "9", "_"}

\* the tag name, "<script" or "</script", lies at j, ends at a word boundary
\* and its tag is closed by a '>': the index after that '>', or 0
TagEnd(t, j, name) ==
    IF At(t, j, name) /\ (\E g \in (j + Len(name))..Len(t) : t[g] = ">")
       /\ toLowerCase(t[j + Len(name)]) \notin WordChars
    THEN 1 + CHOOSE g \in (j + Len(name))..Len(t) :
                 t[g] = ">" /\ \A m \in (j + Len(name))..(g - 1) : t[m] # ">"
    ELSE 0

\* /<script\b[^>]*>[\s\S]*?<\/script\b[^>]*>/.test(t)
re_test(t) ==
    \E j \in 1..Len(t) :
        /\ TagEnd(t, j, <<"<", "s", "c", "r", "i", "p", "t">>) > 0
        /\ \E m \in TagEnd(t, j, <<"<", "s", "c", "r", "i", "p", "t">>)..Len(t) :
              TagEnd(t, m, <<"<", "/", "s", "c", "r", "i", "p", "t">>) > 0

\* /<\?[=|php]?[\s\S]*?\?>/.test(t)
re_php_test(t) ==
    \E j \in 1..Len(t), m \in 1..Len(t) :
        At(t, j, <<"<", "?">>) /\ m >= j + 2 /\ At(t, m, <<"?", ">">>)

\* t.replace(c, by): the first c of t gives way to the text by
replace(t, c, by) ==
    IF \E j \in 1..Len(t) : t[j] = c
    THEN LET j == CHOOSE x \in 1..Len(t) : t[x] = c /\ \A m \in 1..(x - 1) : t[m] # c
         IN SubSeq(t, 1, j - 1) \o by \o SubSeq(t, j + 1, Len(t))
    ELSE t

\* sanitize(piece); undefined is tested as the text "undefined" and returned
sanitize(piece) ==
    IF piece # UNDEF /\ (re_test(piece) \/ re_php_test(piece))
    THEN replace(replace(piece, "<", <<"&", "l", "t", ";">>), ">", <<"&", "g", "t", ";">>)
    ELSE piece

\* the html of the cells of a row, in the order they are appended
html_row(row) == [z \in 1..8 |-> sanitize(piece_readable(row[z]))]

\* [...a].reverse()
reverse(a) == [j \in 1..Len(a) |-> a[Len(a) + 1 - j]]

\* init() on the board b of the heap h: the rows of a reversed copy of b
init_rows(h, b) == [i \in 1..8 |-> html_row(h[reverse(b)[i]])]

RECURSIVE initFlipLoop(_, _, _, _)
\* the loop of initFlip() from its pass i on: f[i] = f[i].reverse() turns
\* the row around where it lies, and f[i] is the row of the board itself
initFlipLoop(h, b, i, out) ==
    IF i = 8 THEN [h |-> h, out |-> out]
    ELSE LET k(h1) == initFlipLoop(h1, b, i + 1, Append(out, html_row(h1[b[i + 1]])))
         IN k([h EXCEPT ![b[i + 1]] = reverse(@)])

\* ------------------------------------------------------------------------
\* The texts and the move nodes the model is run on
\* ------------------------------------------------------------------------

\* the longest free text, in words
MaxWords == 3

\* the longest game of SpecGame, in move nodes
MaxNodes == 3

Words ==
    {<<"1", ".">>,
     <<" ">>,
     <<"e", "4">>,
     <<"1", "-", "0">>,
     <<"1", "/", "2", "-", "1", "/", "2">>,
     <<NL>>,
     <<"{", "x", "}">>,
     <<"(", "a", "(", "b", ")", ")">>,
     <<"O", "-", "O">>,
     <<"e", "9">>,
     <<"=", "Q">>,
     <<"1">>}

RECURSIVE Texts(_)
\* the texts of at most n words
Texts(n) ==
    IF n = 0 THEN {<<>>}
    ELSE Texts(n - 1) \cup {t \o w : t \in Texts(n - 1), w \in Words}

Files == {"a", "b", "c", "d", "e", "f", "g", "h"}

ResultLiterals == {<<"1", "-", "0">>, <<"0", "-", "1">>, <<"1", "/", "2", "-", "1", "/", "2">>}

\* "1. <f><r> <g><s> <R>": two pawn advances from the starting position
OpeningTexts ==
    {<<"1", ".", " ", f, r, " ", g, s, " ">> \o R :
        f \in Files, r \in {"3", "4"}, g \in Files, s \in {"5", "6"}, R \in ResultLiterals}

Headers == {<<>>,
            <<"[", "W", "h", "i", "t", "e", " ", "\"", "a", " ", "b", "\"", "]", NL>>}
WhiteHalves == {<<"e", "4">>,
                <<"d", "3">>,
                <<"N", "f", "3">>,
                <<"O", "-", "O">>}
Separators == {<<" ">>,
               <<" ", "{", "x", "}", " ">>,
               <<" ", "(", "1", ".", " ", "c", "4", " ", "{", "x", "}", ")", " ">>,
               <<" ", "1", ".", ".", ".", " ">>}
BlackHalves == {<<"e", "5">>,
                <<"d", "5">>,
                <<"N", "c", "6">>,
                <<"O", "-", "O", "-", "O">>,
                <<>>}
Endings == {<<>>,
            <<" ", "1", "-", "0">>,
            <<" ", "1", "/", "2", "-", "1", "/", "2">>,
            <<" ", "{", "x", "}">>}

\* a header, a move number, a white half, what stands between the halves,
\* a black half and what ends the text
GameTexts ==
    {h \o <<"1", ".", " ">> \o w \o sep \o b \o e :
        h \in Headers, w \in WhiteHalves, sep \in Separators, b \in BlackHalves, e \in Endings}

\* White WHITE Event
HeaderKeys == {<<"W", "h", "i", "t", "e">>, <<"W", "H", "I", "T", "E">>,
               <<"E", "v", "e", "n", "t">>}

\* what a header may hold between its quotes
HeaderValues == {<<"a", " ", "b">>, <<>>, <<"c">>, <<"a", "]">>}

Quoted(v) == <<"\"">> \o v \o <<"\"">>

\* what may follow the key of a header: a quoted value, or one that lacks a
\* quote
RawValues ==
    {Quoted(v) : v \in HeaderValues}
        \cup {<<"\"", "a", "b">>, <<"a", "b", "\"">>, <<"\"">>}

\* the line [k raw]
HeaderLine(k, raw) == <<"[">> \o k \o <<" ">> \o raw \o <<"]", NL>>

\* nothing, or "1. e4 e5"
HeaderEndings == {<<>>, <<"1", ".", " ", "e", "4", " ", "e", "5">>}

\* two header lines and what follows them
HeaderTexts ==
    {HeaderLine(k1, r1) \o HeaderLine(k2, r2) \o e :
        k1 \in HeaderKeys, r1 \in RawValues, k2 \in HeaderKeys, r2 \in RawValues,
        e \in HeaderEndings}

\* "1. <w> 2. <v>" and "1. <w> 2. <v> <b>": a move number that follows a
\* white half
NumberedTexts ==
    {<<"1", ".", " ">> \o w \o <<" ", "2", ".", " ">> \o v \o b :
        w \in {<<"e", "4">>, <<"N", "f", "3">>},
        v \in {<<"d", "4">>, <<"e", "5">>},
        b \in {<<>>, <<" ", "e", "5">>, <<" ", "d", "5">>}}

Inputs ==
    Texts(MaxWords) \cup OpeningTexts \cup GameTexts \cup HeaderTexts \cup NumberedTexts

\* ------------------------------------------------------------------------
\* The state machine of readPGN(pgn)
\* ------------------------------------------------------------------------

Init ==
    /\ data \in Inputs
    /\ pc = "lex"
    /\ lexer = [PGNLexer EXCEPT !.curr_token_index = 0]
    /\ temp = NoTemp
    /\ parser = PGNParser(<<>>)
    /\ nodes = <<>>
    /\ node_i = 0
    /\ interp = PGNInterpreter
    /\ heap = <<>>
    /\ bd = NoBoard
    /\ error = NoError
    /\ shown = NotRendered

\* one pass of the loop of makeTokens; when the loop ends readPGN makes the
\* parser, whose parse() starts with an advance()
LexStep ==
    /\ pc = "lex"
    /\ \E r \in {makeTokens(data, lexer)} :
        /\ pc' = r.pc
        /\ lexer' = r.lx
        /\ temp' = r.temp
        /\ error' = r.err
        /\ parser' = IF r.pc = "parse" THEN PGNParser(r.lx.tokens) ELSE parser
    /\ UNCHANGED <<data, nodes, node_i, interp, heap, bd, shown>>

\* one pass of the loop of canMakeResult; a pass in which no branch of the
\* loop body is taken leaves every variable as it was, and the loop
\* condition, which reads only these variables, holds again
ScanStep ==
    /\ pc = "scan"
    /\ \E r \in {canMakeResult(data, lexer, temp)} :
        /\ pc' = r.pc
        /\ lexer' = r.lx
        /\ temp' = r.temp
    /\ UNCHANGED <<data, parser, nodes, node_i, interp, heap, bd, error, shown>>

\* one pass of the loop of parse()
ParseStep ==
    /\ pc = "parse"
    /\ parser.curr
    /\ \E r \in {parse(parser)} :
        IF r.ok
        THEN /\ parser' = r.p
             /\ nodes' = Append(nodes, r.node)
             /\ UNCHANGED <<pc, error>>
        ELSE /\ pc' = "rejected"
             /\ error' = ParserError
             /\ UNCHANGED <<parser, nodes>>
    /\ UNCHANGED <<data, lexer, temp, node_i, interp, heap, bd, shown>>

\* readPGN making the board anew and going on with the interpreter it has
NewInterpreter_kept ==
    /\ pc = "parse"
    /\ ~parser.curr
    /\ pc' = "interpret"
    /\ bd' = PGNBoard
    /\ heap' = makeStartingPosition
    /\ UNCHANGED <<data, lexer, temp, parser, nodes, node_i, error, interp, shown>>

\* parse() returns; readPGN makes the interpreter and its board
NewInterpreter ==
    /\ pc = "parse"
    /\ ~parser.curr
    /\ pc' = "interpret"
    /\ interp' = PGNInterpreter
    /\ bd' = PGNBoard
    /\ heap' = makeStartingPosition
    /\ UNCHANGED <<data, lexer, temp, parser, nodes, node_i, error, shown>>

\* what interpreting the node i does to the state
Interpreted(i) ==
    \E r \in {interpret(InterpState, i)} :
        /\ heap' = r.h
        /\ bd' = r.b
        /\ interp' = r.it
        /\ error' = r.err
        /\ pc' = IF r.err # NoError THEN "rejected" ELSE pc

\* one pass of the loop of interpret()
InterpretStep ==
    /\ pc = "interpret"
    /\ node_i < Len(nodes)
    /\ Interpreted(nodes[node_i + 1])
    /\ node_i' = node_i + 1
    /\ UNCHANGED <<data, lexer, temp, parser, nodes, shown>>

\* interpret() returns and the promise resolves with interpreter.bd
Resolve ==
    /\ pc = "interpret"
    /\ node_i = Len(nodes)
    /\ pc' = "resolved"
    /\ UNCHANGED <<data, lexer, temp, parser, nodes, node_i, interp, heap, bd, error, shown>>

Next == LexStep \/ ScanStep \/ ParseStep \/ NewInterpreter \/ InterpretStep \/ Resolve

Spec == Init /\ [][Next]_vars

\* makeTokens runs on: a pass of its loop, or of the loop of canMakeResult,
\* that can be made is made
FairSpec == Spec /\ WF_vars(LexStep \/ ScanStep)

\* ------------------------------------------------------------------------
\* readPGN called again and again: each call is made when the one before it
\* has ended, whatever objects that one has left behind
\* ------------------------------------------------------------------------

\* the texts of the calls: games with a castle, a capture en passant, headers
\* and a result, and texts rejected by the lexer, the parser and the
\* interpreter
SessionTexts ==
    {<<"1", ".", " ", "O", "-", "O", " ", "e", "5">>,
     <<"1", ".", " ", "e", "4", " ", "e", "5", " ", "1", "-", "0">>,
     <<"1", ".", " ", "e", "4", " ", "d", "5", " ", "2", ".", " ", "e", "x", "d", "6">>,
     HeaderLine(<<"W", "h", "i", "t", "e">>, Quoted(<<"c">>))
        \o <<"1", ".", " ", "d", "4", " ", "e", "5">>,
     HeaderLine(<<"W", "h", "i", "t", "e">>, <<"a", "b", "\"">>),
     <<"1", ".", " ", "e", "9">>,
     <<"1", ".", " ", "N", "f", "4">>,
     <<"O", "-">>,
     <<>>}

InitTwice ==
    /\ data \in SessionTexts
    /\ pc = "lex"
    /\ lexer = [PGNLexer EXCEPT !.curr_token_index = 0]
    /\ temp = NoTemp
    /\ parser = PGNParser(<<>>)
    /\ nodes = <<>>
    /\ node_i = 0
    /\ interp = PGNInterpreter
    /\ heap = <<>>
    /\ bd = NoBoard
    /\ error = NoError
    /\ shown = NotRendered

\* the next call of readPGN: a new lexer on the new text, an empty
\* parsed_data and the first node; the parser, the interpreter and the board
\* of the call before are still what they were
Again ==
    /\ pc \in {"resolved", "rejected"}
    /\ data' \in SessionTexts
    /\ pc' = "lex"
    /\ lexer' = [PGNLexer EXCEPT !.curr_token_index = 0]
    /\ temp' = NoTemp
    /\ nodes' = <<>>
    /\ node_i' = 0
    /\ error' = NoError
    /\ UNCHANGED <<parser, interp, heap, bd, shown>>

NextTwice == Next \/ Again

SpecTwice == InitTwice /\ [][NextTwice]_vars

\* ------------------------------------------------------------------------
\* A game is read and its board is rendered, any number of times
\* ------------------------------------------------------------------------

\* "1. e4 e5 1-0", "1. O-O e5", "1. exd4=Q"
RenderTexts ==
    {<<"1", ".", " ", "e", "4", " ", "e", "5", " ", "1", "-", "0">>,
     <<"1", ".", " ", "O", "-", "O", " ", "e", "5">>,
     <<"1", ".", " ", "e", "x", "d", "4", "=", "Q">>}

InitRender ==
    /\ data \in RenderTexts
    /\ pc = "lex"
    /\ lexer = [PGNLexer EXCEPT !.curr_token_index = 0]
    /\ temp = NoTemp
    /\ parser = PGNParser(<<>>)
    /\ nodes = <<>>
    /\ node_i = 0
    /\ interp = PGNInterpreter
    /\ heap = <<>>
    /\ bd = NoBoard
    /\ error = NoError
    /\ shown = NotRendered

\* board_output.pgn_board.key_position = k, an index of memory_boards
SetKey ==
    /\ pc = "resolved"
    /\ \E k \in 0..(Len(bd.memory_boards) - 1) :
          /\ k # bd.key_position
          /\ bd' = [bd EXCEPT !.key_position = k]
    /\ UNCHANGED <<data, pc, lexer, temp, parser, nodes, node_i, interp, heap, error, shown>>

\* ChessBoard.init()
init ==
    /\ pc = "resolved"
    /\ shown' = init_rows(heap, bd.memory_boards[bd.key_position + 1])
    /\ UNCHANGED <<data, pc, lexer, temp, parser, nodes, node_i, interp, heap, bd, error>>

\* ChessBoard.initFlip()
initFlip ==
    /\ pc = "resolved"
    /\ \E r \in {initFlipLoop(heap, bd.memory_boards[bd.key_position + 1], 0, <<>>)} :
          /\ heap' = r.h
          /\ shown' = r.out
    /\ UNCHANGED <<data, pc, lexer, temp, parser, nodes, node_i, interp, bd, error>>

NextRender == Next \/ SetKey \/ init \/ initFlip

SpecRender == InitRender /\ [][NextRender]_vars

\* ------------------------------------------------------------------------
\* readPGN on a game with a variation after its first move
\* ------------------------------------------------------------------------

\* (d4)  (d4 (c4) d5)  (d4 {x} d5)  (d4 {:)} d5)  (d4 {(} d5)  (d4
\* (d4<newline>)  ((d4)
Variations ==
    {<<"(", "d", "4", ")">>,
     <<"(", "d", "4", " ", "(", "c", "4", ")", " ", "d", "5", ")">>,
     <<"(", "d", "4", " ", "{", "x", "}", " ", "d", "5", ")">>,
     <<"(", "d", "4", " ", "{", ":", ")", "}", " ", "d", "5", ")">>,
     <<"(", "d", "4", " ", "{", "(", "}", " ", "d", "5", ")">>,
     <<"(", "d", "4">>,
     <<"(", "d", "4", NL, ")">>,
     <<"(", "(", "d", "4", ")">>}

\* nothing, " e5 1-0"
VariationTails == {<<>>, <<" ", "e", "5", " ", "1", "-", "0">>}

\* "1. e4 <variation><tail>"
VariationTexts ==
    {<<"1", ".", " ", "e", "4", " ">> \o v \o t : v \in Variations, t \in VariationTails}

InitVariation ==
    /\ data \in VariationTexts
    /\ pc = "lex"
    /\ lexer = [PGNLexer EXCEPT !.curr_token_index = 0]
    /\ temp = NoTemp
    /\ parser = PGNParser(<<>>)
    /\ nodes = <<>>
    /\ node_i = 0
    /\ interp = PGNInterpreter
    /\ heap = <<>>
    /\ bd = NoBoard
    /\ error = NoError
    /\ shown = NotRendered

SpecVariation == InitVariation /\ [][Next]_vars

\* ------------------------------------------------------------------------
\* The interpreter on move nodes: new PGNInterpreter(nodes).interpret()
\* ------------------------------------------------------------------------

HalfMove(piece_type, target_square, from_file, from_rank) ==
    [piece_type |-> piece_type, target_square |-> target_square,
     from_rank |-> from_rank, from_file |-> from_file]

\* e4 e5 exd6 O-O Ke2
WhiteMoves ==
    {HalfMove(<<"P">>, <<"e", "4">>, null, null),
     HalfMove(<<"P">>, <<"e", "5">>, null, null),
     HalfMove(<<"P">>, <<"d", "6">>, <<"e">>, null),
     CastleMove(<<"castle_king">>),
     HalfMove(<<"K">>, <<"e", "2">>, null, null)}

\* d5 d4 dxe3 O-O Ke7
BlackMoves ==
    {HalfMove(<<"P">>, <<"d", "5">>, null, null),
     HalfMove(<<"P">>, <<"d", "4">>, null, null),
     HalfMove(<<"P">>, <<"e", "3">>, <<"d">>, null),
     CastleMove(<<"castle_king">>),
     HalfMove(<<"K">>, <<"e", "7">>, null, null)}

\* e4 O-O, as the white half of a node without a black half
LastMoves ==
    {HalfMove(<<"P">>, <<"e", "4">>, null, null),
     CastleMove(<<"castle_king">>)}

\* the move nodes parseMove can return for these half-moves
GameNodes ==
    {PGNMove(w, b, TRUE) : w \in WhiteMoves, b \in BlackMoves}
        \cup {PGNMove(w, NoMove, FALSE) : w \in LastMoves}

\* the state readPGN is in when the interpreter is made for the empty text
InitGame ==
    /\ data = <<>>
    /\ pc = "interpret"
    /\ lexer = [PGNLexer EXCEPT !.curr_token_index = 0]
    /\ temp = NoTemp
    /\ parser = PGNParser(<<>>)
    /\ nodes = <<>>
    /\ node_i = 0
    /\ interp = PGNInterpreter
    /\ heap = makeStartingPosition
    /\ bd = PGNBoard
    /\ error = NoError
    /\ shown = NotRendered

\* one pass of the loop of interpret(), on a next node of the game
GameStep ==
    /\ pc = "interpret"
    /\ Len(nodes) < MaxNodes
    /\ \E i \in GameNodes :
        /\ nodes' = Append(nodes, i)
        /\ Interpreted(i)
    /\ node_i' = node_i + 1
    /\ UNCHANGED <<data, lexer, temp, parser, shown>>

NextGame == GameStep

SpecGame == InitGame /\ [][NextGame]_vars

\* ------------------------------------------------------------------------
\* The interpreter in the middle of a game: the positions the piece searches
\* are run on, the boards before the current one being left out
\* ------------------------------------------------------------------------

\* the number of nodes interpreted from a position
MaxFinds == 2

\* the empty board with the two kings on g3 and g8
KingsOnly ==
    [r \in 1..8 |-> [f \in 1..8 |->
        IF r = 3 /\ f = 7 THEN Piece("W", "K")
        ELSE IF r = 8 /\ f = 7 THEN Piece("B", "K")
        ELSE NBSP]]

\* what may stand between a rook and its target: nothing, a piece of the
\* mover, a piece of the other side
Between == {NBSP, Piece("W", "N"), Piece("B", "P")}

\* white rooks on a1, h1 and d4 or not, with b1, c1, f1 and d3 free or not
RookPositions ==
    {[KingsOnly EXCEPT ![1][1] = a1, ![1][2] = b1, ![1][3] = c1, ![1][6] = f1,
                       ![1][8] = h1, ![3][4] = d3, ![4][4] = d4] :
        a1 \in {NBSP, Piece("W", "R")}, b1 \in Between, c1 \in Between,
        f1 \in Between, h1 \in {NBSP, Piece("W", "R")},
        d3 \in {NBSP, Piece("B", "P")}, d4 \in {NBSP, Piece("W", "R")}}

\* knights of either side or nothing on b1, f1, b3 and f3, a white knight or
\* nothing on c4
KnightPositions ==
    {[KingsOnly EXCEPT ![1][2] = b1, ![1][6] = f1, ![3][2] = b3, ![3][6] = f3,
                       ![4][3] = c4] :
        b1 \in {NBSP, Piece("W", "N"), Piece("B", "N")},
        f1 \in {NBSP, Piece("W", "N"), Piece("B", "N")},
        b3 \in {NBSP, Piece("W", "N")}, f3 \in {NBSP, Piece("W", "N")},
        c4 \in {NBSP, Piece("W", "N")}}

\* a white pawn on e5 or e7, with d5, d6 and d8 holding a black pawn, a black
\* knight, a white knight or nothing
CapturePositions ==
    {[KingsOnly EXCEPT ![5][5] = e5, ![7][5] = e7, ![5][4] = d5, ![6][4] = d6,
                       ![8][4] = d8] :
        e5 \in {NBSP, Piece("W", "P")}, e7 \in {NBSP, Piece("W", "P")},
        d5 \in {NBSP, Piece("B", "P"), Piece("B", "N")},
        d6 \in {NBSP, Piece("B", "P"), Piece("B", "N"), Piece("W", "N")},
        d8 \in {NBSP, Piece("B", "N")}}

\* the white king on e1, its rook on h1 or gone; black rooks on a8 and h8 or
\* not
CastlePositions ==
    {[r \in 1..8 |-> [f \in 1..8 |->
        IF r = 1 /\ f = 5 THEN Piece("W", "K")
        ELSE IF r = 1 /\ f = 8 THEN h1
        ELSE IF r = 8 /\ f = 5 THEN Piece("B", "K")
        ELSE IF r = 8 /\ f = 1 THEN a8
        ELSE IF r = 8 /\ f = 8 THEN h8
        ELSE NBSP]] :
        h1 \in {NBSP, Piece("W", "R")},
        a8 \in {NBSP, Piece("B", "R")}, h8 \in {NBSP, Piece("B", "R")}}

\* white bishops on c1 and h6 or not, with d2, e3 and g5 free or not
BishopPositions ==
    {[KingsOnly EXCEPT ![1][3] = c1, ![2][4] = d2, ![3][5] = e3, ![5][7] = g5,
                       ![6][8] = h6] :
        c1 \in {NBSP, Piece("W", "B")}, d2 \in {NBSP, Piece("B", "P")},
        e3 \in {NBSP, Piece("B", "P")}, g5 \in {NBSP, Piece("W", "N")},
        h6 \in {NBSP, Piece("W", "B")}}

FindPositions ==
    RookPositions \cup KnightPositions \cup CapturePositions \cup CastlePositions
        \cup BishopPositions

\* Rd1 Rad1 Bf4 Nd2 Nbd2 Nfd2 exd6 exd8=Q, as the white half of a node
\* without a black half
FindWhite ==
    {HalfMove(<<"R">>, <<"d", "1">>, null, null),
     HalfMove(<<"R">>, <<"d", "1">>, <<"a">>, null),
     HalfMove(<<"B">>, <<"f", "4">>, null, null),
     HalfMove(<<"N">>, <<"d", "2">>, null, null),
     HalfMove(<<"N">>, <<"d", "2">>, <<"b">>, null),
     HalfMove(<<"N">>, <<"d", "2">>, <<"f">>, null),
     HalfMove(<<"P">>, <<"d", "6">>, <<"e">>, null),
     HalfMove(<<"P">>, <<"d", "8">>, <<"e">>, <<"Q">>)}

\* O-O Ra1, Kh1 Rf1
FindPairs ==
    {PGNMove(CastleMove(<<"castle_king">>),
             HalfMove(<<"R">>, <<"a", "1">>, null, null), TRUE),
     PGNMove(HalfMove(<<"K">>, <<"h", "1">>, null, null),
             HalfMove(<<"R">>, <<"f", "1">>, null, null), TRUE)}

FindNodes == {PGNMove(w, NoMove, FALSE) : w \in FindWhite} \cup FindPairs

InitFind ==
    /\ data = <<>>
    /\ pc = "interpret"
    /\ lexer = [PGNLexer EXCEPT !.curr_token_index = 0]
    /\ temp = NoTemp
    /\ parser = PGNParser(<<>>)
    /\ nodes = <<>>
    /\ node_i = 0
    /\ interp = PGNInterpreter
    /\ heap \in FindPositions
    /\ bd = PGNBoard
    /\ error = NoError
    /\ shown = NotRendered

\* one pass of the loop of interpret(), on a next node from the position
FindStep ==
    /\ pc = "interpret"
    /\ Len(nodes) < MaxFinds
    /\ \E i \in FindNodes :
        /\ nodes' = Append(nodes, i)
        /\ Interpreted(i)
    /\ node_i' = node_i + 1
    /\ UNCHANGED <<data, lexer, temp, parser, shown>>

NextFind == FindStep

SpecFind == InitFind /\ [][NextFind]_vars

\* ------------------------------------------------------------------------
\* readPGN(pgn) as a function of the text
\* ------------------------------------------------------------------------

RECURSIVE LexRun(_, _)
\* the loops of makeTokens and canMakeResult from the position s on; a pass
\* of canMakeResult's loop that changes nothing is passed again for ever
LexRun(d, s) ==
    IF s.pc = "lex" THEN LexRun(d, makeTokens(d, s.lx))
    ELSE IF s.pc = "scan"
    THEN LET r == canMakeResult(d, s.lx, s.temp) IN
         IF r = s THEN [s EXCEPT !.pc = "hang"] ELSE LexRun(d, r)
    ELSE s

RECURSIVE ParseRun(_, _)
\* the loop of parse() from the parser p on, ns being parsed_data
ParseRun(p, ns) ==
    IF ~p.curr THEN [ok |-> TRUE, nodes |-> ns]
    ELSE LET r == parse(p) IN
         IF r.ok THEN ParseRun(r.p, Append(ns, r.node))
         ELSE [ok |-> FALSE, nodes |-> ns]

RECURSIVE InterpretRun(_, _, _)
\* the loop of interpret() from the node k on
InterpretRun(st, ns, k) ==
    IF k > Len(ns) THEN st
    ELSE LET r == interpret(st, ns[k]) IN
         IF r.err # NoError THEN r ELSE InterpretRun(r, ns, k + 1)

\* what the caller of readPGN gets: the game record, the kind of the error
\* the promise is rejected with, or nothing at all when a loop never ends
Rejected(err) == [kind |-> "rejected", err |-> err.kind, history |-> <<>>,
                  header |-> <<>>, result_str |-> <<>>]
Resolved(h, b) == [kind |-> "resolved", err |-> "",
                   history |-> [k \in 1..Len(b.memory_boards) |-> Grid(h, b.memory_boards[k])],
                   header |-> b.header, result_str |-> b.result_str]
Hangs == [kind |-> "hang", err |-> "", history |-> <<>>, header |-> <<>>, result_str |-> <<>>]

readPGN(pgn) ==
    LET l == LexRun(pgn, [pc |-> "lex", lx |-> [PGNLexer EXCEPT !.curr_token_index = 0],
                          temp |-> NoTemp, err |-> NoError])
        p == ParseRun(PGNParser(l.lx.tokens), <<>>)
        i == InterpretRun([h |-> makeStartingPosition, b |-> PGNBoard,
                           it |-> PGNInterpreter, err |-> NoError], p.nodes, 1)
    IN
    IF l.pc = "hang" THEN Hangs
    ELSE IF l.pc = "rejected" THEN Rejected(l.err)
    ELSE IF ~p.ok THEN Rejected(ParserError)
    ELSE IF i.err # NoError THEN Rejected(i.err)
    ELSE Resolved(i.h, i.b)

\* ------------------------------------------------------------------------
\* Vocabulary of the properties
\* ------------------------------------------------------------------------

RECURSIVE Halves(_)
\* the half-moves of a node sequence, in the order they are played
Halves(ns) ==
    IF Len(ns) = 0 THEN <<>>
    ELSE LET i == ns[1]
             rest == Halves(Tail(ns))
         IN
         IF i.node_type # "move" THEN rest
         ELSE IF i.has_black
         THEN <<[mv |-> i.white_move, color |-> "W"], [mv |-> i.black_move, color |-> "B"]>> \o rest
         ELSE <<[mv |-> i.white_move, color |-> "W"]>> \o rest

\* the interpreter exists
Interpreting == pc \in {"interpret", "resolved"} \/ (pc = "rejected" /\ Len(bd.memory_boards) > 0)

\* the number of half-moves applied so far
Applied == Len(bd.memory_boards) - 1

IsEmpty(cell) == cell = NBSP \/ cell = EMPTY

\* the standard starting position, written out
StandardStart ==
    << <<Piece("W", "R"), Piece("W", "N"), Piece("W", "B"), Piece("W", "Q"),
         Piece("W", "K"), Piece("W", "B"), Piece("W", "N"), Piece("W", "R")>>,
       [f \in 1..8 |-> Piece("W", "P")],
       [f \in 1..8 |-> NBSP], [f \in 1..8 |-> NBSP],
       [f \in 1..8 |-> NBSP], [f \in 1..8 |-> NBSP],
       [f \in 1..8 |-> Piece("B", "P")],
       << Piece("B", "R"), Piece("B", "N"), Piece("B", "B"), Piece("B", "Q"),
          Piece("B", "K"), Piece("B", "B"), Piece("B", "N"), Piece("B", "R")>> >>

\* the row and the column of a square, as indices
RowOfSquare(sq) == RankOf(sq) - 1
ColOfSquare(sq) == indexOf(toLowerCase(sq[1]))

Opponent(color) == IF color = "W" THEN "B" ELSE "W"

\* a half-move of the side c among hs is a castle or a king move
KingHasMoved(c, hs) ==
    \E j \in 1..Len(hs) :
        hs[j].color = c /\ (IsCastle(hs[j].mv) \/ hs[j].mv.piece_type = <<"K">>)

\* what readPGN has given its caller, once it has
Outcome == IF pc = "resolved" THEN Resolved(heap, bd) ELSE Rejected(error)

RECURSIVE CloseBrace(_, _)
\* the place of the first "}" of d from i on, or 0
CloseBrace(d, i) ==
    IF i > Len(d) THEN 0
    ELSE IF d[i] = "}" THEN i
    ELSE CloseBrace(d, i + 1)

RECURSIVE CloseParen(_, _, _)
\* the place from i on of the ")" that closes depth open "(", or 0
CloseParen(d, i, depth) ==
    IF i > Len(d) THEN 0
    ELSE IF d[i] = "(" THEN CloseParen(d, i + 1, depth + 1)
    ELSE IF d[i] = ")" THEN IF depth = 1 THEN i ELSE CloseParen(d, i + 1, depth - 1)
    ELSE CloseParen(d, i + 1, depth)

RECURSIVE Spans(_, _)
\* the outermost '{...}' and '(...)' spans of d from i on, each as its first
\* and last place; ok tells whether each of them is terminated
Spans(d, i) ==
    IF i > Len(d) THEN [ok |-> TRUE, spans |-> {}]
    ELSE IF d[i] \in {"{", "("}
    THEN LET j == IF d[i] = "{" THEN CloseBrace(d, i + 1) ELSE CloseParen(d, i + 1, 1) IN
         IF j = 0 THEN [ok |-> FALSE, spans |-> {}]
         ELSE [ok |-> Spans(d, j + 1).ok, spans |-> Spans(d, j + 1).spans \cup {<<i, j>>}]
    ELSE Spans(d, i + 1)

\* the text d without the span sp
Delete(d, sp) == SubSeq(d, 1, sp[1] - 1) \o SubSeq(d, sp[2] + 1, Len(d))

\* ------------------------------------------------------------------------
\* Properties
\* ------------------------------------------------------------------------

\* C1: while the nodes are interpreted and when the game record is returned,
\* memory_boards holds one board more than the half-moves of the move nodes
\* interpreted so far (one per white half, one per black half that is
\* there); detail and result nodes add none.
C1_HistoryLength ==
    pc \in {"interpret", "resolved"} =>
        Len(bd.memory_boards) = 1 + Len(Halves(SubSeq(nodes, 1, node_i)))

\* a game record returned for a text with a header, both halves of a move
\* and a result
C1_Witness ==
    /\ pc = "resolved"
    /\ Len(bd.memory_boards) = 3
    /\ \E k \in 1..Len(nodes) : nodes[k].node_type = "detail"
    /\ \E k \in 1..Len(nodes) : nodes[k].node_type = "result"

\* C2: whatever has been interpreted, the first board of memory_boards is
\* the standard starting position.
C2_FirstIsStart == Interpreting => Snapshot(1) = StandardStart

C2_Witness == pc = "interpret" /\ Len(bd.memory_boards) >= 6

\* C3: a step never changes a cell of a board that is already in
\* memory_boards, and no two boards of memory_boards share a row.
C3_AppendOnly ==
    [][/\ \A k \in 1..Len(bd.memory_boards) :
            /\ k <= Len(bd.memory_boards')
            /\ Snapshot(k)' = Snapshot(k)
       /\ Cardinality({bd.memory_boards'[k][r] : k \in 1..Len(bd.memory_boards'), r \in 1..8})
            = 8 * Len(bd.memory_boards')]_vars

\* a game with a castle, a pawn move and a king move in its history
C3_Witness ==
    /\ Len(bd.memory_boards) >= 5
    /\ \E k \in 1..Len(nodes) : IsCastle(nodes[k].white_move)
    /\ \E k \in 1..Len(nodes) : nodes[k].white_move.piece_type = <<"K">>
    /\ \E k \in 1..Len(nodes) : nodes[k].black_move.piece_type = <<"P">>

\* C4: for a text "1. <f><r> <g><s> <R>" with r 3 or 4, s 6 or 5 and R a
\* result literal, readPGN is not rejected and its scan of a result never
\* stands still; the game record it returns has three boards, the second
\* being the first but for an empty f2 and WP on the target, the third being
\* the second but for an empty g7 and BP on the target, and result_str is R.
C4_TwoPawnAdvances ==
    data \in OpeningTexts =>
        /\ pc # "rejected"
        /\ pc = "scan" =>
            canMakeResult(data, lexer, temp)
                # [pc |-> "scan", lx |-> lexer, temp |-> temp, err |-> NoError]
        /\ pc = "resolved" =>
            LET wf == indexOf(data[4])
                wr == DigitVal(data[5]) - 1
                bf == indexOf(data[7])
                br == DigitVal(data[8]) - 1
            IN
            /\ Len(bd.memory_boards) = 3
            /\ \A r \in 0..7, f \in 0..7 :
                IF r = wr /\ f = wf THEN Cell(Snapshot(2), r, f) = Piece("W", "P")
                ELSE IF r = 1 /\ f = wf THEN IsEmpty(Cell(Snapshot(2), r, f))
                ELSE Cell(Snapshot(2), r, f) = Cell(Snapshot(1), r, f)
            /\ \A r \in 0..7, f \in 0..7 :
                IF r = br /\ f = bf THEN Cell(Snapshot(3), r, f) = Piece("B", "P")
                ELSE IF r = 6 /\ f = bf THEN IsEmpty(Cell(Snapshot(3), r, f))
                ELSE Cell(Snapshot(3), r, f) = Cell(Snapshot(2), r, f)
            /\ bd.result_str = SubSeq(data, 10, Len(data))

\* the game record of "1. a3 h5 1/2-1/2"
C4_Witness ==
    /\ pc = "resolved"
    /\ data = <<"1", ".", " ", "a", "3", " ", "h", "5", " ", "1", "/", "2", "-", "1", "/", "2">>
    /\ Len(bd.memory_boards) = 3
    /\ Cell(Snapshot(3), 2, 0) = Piece("W", "P")
    /\ Cell(Snapshot(3), 4, 7) = Piece("B", "P")

\* C5: when readPGN is rejected, the error is a LexerError, a ParserError
\* or an InterpretError.
C5_TypedFailure ==
    pc = "rejected" => error.kind \in {"LexerError", "ParserError", "InterpretError"}

\* C6: a half-move that was applied and is neither a castle nor a promotion
\* has put a piece of the mover's colour and of the notated kind on its
\* target square: its origin square held that piece.
C6_MovesThePiece ==
    \A k \in 1..Applied :
        LET hm == Halves(nodes)[k] IN
        (~IsCastle(hm.mv) /\ hm.mv.from_rank = null) =>
            Cell(Snapshot(k + 1), RowOfSquare(hm.mv.target_square),
                 ColOfSquare(hm.mv.target_square))
                = Piece(hm.color, hm.mv.piece_type[1])

\* C7: makeTokens ends for every text: it returns the tokens to readPGN or
\* throws a LexerError, whatever follows a result in the text.
C7_Terminates == <>(pc \notin {"lex", "scan"})

\* C8: when readPGN has ended on a text whose '{...}' and '(...)' spans are
\* all terminated, readPGN of the text without any one of these spans ends
\* the same way: the same boards, header and result, or an error of the same
\* kind.
C8_SpansInvisible ==
    (pc \in {"resolved", "rejected"} /\ Spans(data, 1).ok) =>
        \A sp \in Spans(data, 1).spans : readPGN(Delete(data, sp)) = Outcome

\* what a step of the interpreter does with the castles of the node it adds
C9_CastleStep ==
    LET i == nodes'[Len(nodes')]
        n == Len(bd.memory_boards)
        n1 == Len(bd'.memory_boards)
    IN
    /\ interp.white_king_moved => interp'.white_king_moved
    /\ interp.black_king_moved => interp'.black_king_moved
    /\ IsCastle(i.white_move) =>
        IF interp.white_king_moved
        THEN pc' = "rejected" /\ error' = InterpretError /\ n1 = n
        ELSE n1 > n /\ interp'.white_king_moved
    \* n1 > n: the white half was applied
    /\ (i.has_black /\ IsCastle(i.black_move) /\ n1 > n) =>
        IF interp.black_king_moved
        THEN pc' = "rejected" /\ error' = InterpretError /\ n1 = n + 1
        ELSE pc' = "interpret" /\ n1 = n + 2 /\ interp'.black_king_moved

\* as long as no half-move has failed, the flag of a side tells whether one
\* of its half-moves was a castle or a king move
C9_Flags ==
    pc = "interpret" =>
        /\ interp.white_king_moved = KingHasMoved("W", Halves(nodes))
        /\ interp.black_king_moved = KingHasMoved("B", Halves(nodes))

\* C9: a castle of a side is rejected with an InterpretError, and adds no
\* board, exactly when an earlier half-move of that side was a castle or a
\* king move; otherwise it adds a board and sets the side's flag, which no
\* step clears.
C9_CastleOnce == [][C9_CastleStep /\ C9_Flags']_vars

\* 1. e4 d5 2. Ke2 d4 3. O-O: the castle after the king move is rejected
C9_Witness ==
    /\ pc = "rejected"
    /\ error = InterpretError
    /\ Len(nodes) = 3
    /\ nodes[2].white_move.piece_type = <<"K">>
    /\ IsCastle(nodes[3].white_move)
    /\ Len(bd.memory_boards) = 5

\* the half-move hm is a pawn capture, on the position g, by a pawn that
\* stands diagonally behind the empty target square
EmptyCapture(g, hm) ==
    LET mv == hm.mv
        tf == ColOfSquare(mv.target_square)
        tr == RowOfSquare(mv.target_square)
        of == indexOf(mv.from_file[1])
        or == IF hm.color = "W" THEN tr - 1 ELSE tr + 1
    IN
    /\ mv.piece_type = <<"P">>
    /\ mv.from_file # null
    /\ mv.from_rank = null
    /\ (of = tf + 1 \/ of = tf - 1)
    /\ RowOK(or)
    /\ Cell(g, or, of) = Piece(hm.color, "P")
    /\ IsEmpty(Cell(g, tr, tf))

\* the cell beside the capturing pawn, on the target's file
Passed(g, hm) ==
    Cell(g, IF hm.color = "W" THEN RowOfSquare(hm.mv.target_square) - 1
            ELSE RowOfSquare(hm.mv.target_square) + 1,
         ColOfSquare(hm.mv.target_square))

\* C10: an applied pawn capture onto an empty square diagonally ahead of the
\* capturing pawn leaves the pawn on the target, its origin square empty and
\* the square of the origin's rank and the target's file empty if an enemy
\* pawn stood there; every other cell is as before.
C10_EnPassant ==
    \A k \in 1..Applied :
        LET hm == Halves(nodes)[k]
            tf == ColOfSquare(hm.mv.target_square)
            tr == RowOfSquare(hm.mv.target_square)
            of == indexOf(hm.mv.from_file[1])
            or == IF hm.color = "W" THEN tr - 1 ELSE tr + 1
        IN
        EmptyCapture(Snapshot(k), hm) =>
            \A r \in 0..7, f \in 0..7 :
                IF r = tr /\ f = tf
                THEN Cell(Snapshot(k + 1), r, f) = Piece(hm.color, "P")
                ELSE IF r = or /\ f = of
                THEN IsEmpty(Cell(Snapshot(k + 1), r, f))
                ELSE IF r = or /\ f = tf /\ Passed(Snapshot(k), hm) = Piece(Opponent(hm.color), "P")
                THEN IsEmpty(Cell(Snapshot(k + 1), r, f))
                ELSE Cell(Snapshot(k + 1), r, f) = Cell(Snapshot(k), r, f)

\* a capture en passant has been applied: the passed pawn stood beside the
\* capturing pawn and is gone
C10_Witness ==
    \E k \in 1..Applied :
        /\ EmptyCapture(Snapshot(k), Halves(nodes)[k])
        /\ Passed(Snapshot(k), Halves(nodes)[k]) = Piece(Opponent(Halves(nodes)[k].color), "P")
        /\ IsEmpty(Passed(Snapshot(k + 1), Halves(nodes)[k]))

\* the squares strictly between two squares of one rank or one file, a square
\* being a row and a column
BetweenSquares(o, t) ==
    {s \in (0..7) \X (0..7) :
        \/ s[1] = o[1] /\ s[1] = t[1] /\ Min(o[2], t[2]) < s[2] /\ s[2] < Max(o[2], t[2])
        \/ s[2] = o[2] /\ s[2] = t[2] /\ Min(o[1], t[1]) < s[1] /\ s[1] < Max(o[1], t[1])}

\* the squares of the target's rank or file that hold the piece p
OnLine(g, t, p) ==
    {o \in (0..7) \X (0..7) :
        (o[1] = t[1] \/ o[2] = t[2]) /\ Cell(g, o[1], o[2]) = p}

\* those of them with only empty squares between them and the target
ClearLine(g, t, p) ==
    {o \in OnLine(g, t, p) : \A s \in BetweenSquares(o, t) : IsEmpty(Cell(g, s[1], s[2]))}

\* the position g after the piece p has gone from o to t
MovedOn(g, o, t, p) ==
    [r \in 1..8 |-> [f \in 1..8 |->
        IF <<r - 1, f - 1>> = t THEN p
        ELSE IF <<r - 1, f - 1>> = o THEN NBSP
        ELSE g[r][f]]]

TargetOf(hm) == <<RowOfSquare(hm.mv.target_square), ColOfSquare(hm.mv.target_square)>>

\* the half-move is a move of the piece of this letter, written without a
\* disambiguator
Plain(hm, letter) ==
    hm.mv.piece_type = <<letter>> /\ hm.mv.from_file = null /\ hm.mv.from_rank = null

\* no castle was played before the k-th half-move
NoCastleBefore(k) == \A j \in 1..(k - 1) : ~IsCastle(Halves(nodes)[j].mv)

KnightReach(g, t, p) ==
    {o \in (0..7) \X (0..7) :
        /\ {o[1] - t[1], t[1] - o[1]} \cup {o[2] - t[2], t[2] - o[2]} = {1, -1, 2, -2}
        /\ Cell(g, o[1], o[2]) = p}

\* those of them on the file the half-move names, all of them if it names none
KnightChoice(g, hm) ==
    {o \in KnightReach(g, TargetOf(hm), Piece(hm.color, "N")) :
        hm.mv.from_file # null => <<files[o[2] + 1]>> = hm.mv.from_file}

\* a knight move that names no rank
KnightMove(hm) == hm.mv.piece_type = <<"N">> /\ hm.mv.from_rank = null

\* the half-move names the knight: by its file, or by being the only one
Named(g, hm) ==
    IF hm.mv.from_file # null THEN KnightChoice(g, hm) # {}
    ELSE Cardinality(KnightChoice(g, hm)) = 1

\* C12: a knight move that was applied with a file disambiguator has moved a
\* knight of the mover's colour from a square of that file a knight's move
\* away from the target, whatever other knights reach the target; one
\* applied without a disambiguator while exactly one knight of the mover
\* reaches the target has moved that knight; and neither is refused while
\* the knight it names stands there.
C12_KnightOrigin ==
    /\ \A k \in 1..Applied :
          LET hm == Halves(nodes)[k] IN
          (KnightMove(hm) /\ Named(Snapshot(k), hm)) =>
              \E o \in KnightChoice(Snapshot(k), hm) :
                  Snapshot(k + 1) = MovedOn(Snapshot(k), o, TargetOf(hm), Piece(hm.color, "N"))
    /\ (pc = "rejected" /\ Applied < Len(Halves(nodes))) =>
          LET hm == Halves(nodes)[Applied + 1] IN
          KnightMove(hm) => ~Named(Snapshot(Applied + 1), hm)

\* a knight move with a file disambiguator was applied while a knight of the
\* mover on another file reached the target as well
C12_Witness ==
    \E k \in 1..Applied :
        LET hm == Halves(nodes)[k]
            g == Snapshot(k)
        IN
        /\ KnightMove(hm)
        /\ hm.mv.from_file = <<"f">>
        /\ KnightChoice(g, hm) # {}
        /\ KnightChoice(g, hm) # KnightReach(g, TargetOf(hm), Piece(hm.color, "N"))
        /\ Cell(Snapshot(k + 1), 1, 3) = Piece(hm.color, "N")

\* the value result_str has before a result is interpreted
NotYetKnown == PGNBoard.result_str

\* the result tokens the lexer has made so far
ResultTokens == {j \in 1..Len(lexer.tokens) : lexer.tokens[j].type = TT_RES}

\* C13: every result token the lexer makes holds "1-0", "0-1" or "1/2-1/2";
\* the result of a resolved game is one of these or the not-yet-known value,
\* and it is the not-yet-known value only when the lexer made no result
\* token.
C13_ResultValue ==
    /\ \A j \in ResultTokens : lexer.tokens[j].value \in ResultLiterals
    /\ pc = "resolved" =>
          /\ bd.result_str \in ResultLiterals \cup {NotYetKnown}
          /\ bd.result_str = NotYetKnown => ResultTokens = {}

\* C14: when readPGN has ended on a text, readPGN of the text with one more
\* space at its end ends the same way: the same boards, header and result,
\* or the same error.
C14_SpacesIgnored ==
    pc \in {"resolved", "rejected"} => readPGN(data \o <<" ">>) = Outcome

\* the keys of HeaderKeys in lower case: white, white, event
Lowered(k) ==
    IF k = <<"E", "v", "e", "n", "t">> THEN <<"e", "v", "e", "n", "t">>
    ELSE <<"w", "h", "i", "t", "e">>

\* what readPGN has made of the two header lines [k1 "v1"] [k2 "v2"] that
\* begin the text
Produced(k1, v1, k2, v2) ==
    /\ pc # "rejected"
    /\ pc = "resolved" =>
          /\ DOMAIN bd.header = {Lowered(k1), Lowered(k2)}
          /\ bd.header[Lowered(k2)] = v2
          /\ Lowered(k1) # Lowered(k2) => bd.header[Lowered(k1)] = v1
          /\ Applied = Len(Halves(nodes))

\* the text is these two header lines and an ending
HeaderPair(k1, v1, k2, v2) ==
    /\ Len(data) > 0
    /\ data[1] = "["
    /\ \E e \in HeaderEndings :
          data = HeaderLine(k1, Quoted(v1)) \o HeaderLine(k2, Quoted(v2)) \o e

\* the value holds no ']'
NoBracket(v) == \A j \in 1..Len(v) : v[j] # "]"

TokensOf(pgn) ==
    LexRun(pgn, [pc |-> "lex", lx |-> [PGNLexer EXCEPT !.curr_token_index = 0],
                 temp |-> NoTemp, err |-> NoError]).lx.tokens
NodesOf(pgn) == ParseRun(PGNParser(TokensOf(pgn)), <<>>).nodes

\* C16: whatever calls of readPGN were made before, a call that has ended
\* has given what readPGN gives for its text alone: the same boards, header
\* and result, or the same error; and when it is resolved, the tokens and
\* the nodes it went through are those of its text alone.
C16_Independent ==
    /\ pc \in {"resolved", "rejected"} => Outcome = readPGN(data)
    /\ pc = "resolved" => lexer.tokens = TokensOf(data) /\ nodes = NodesOf(data)

\* a call on "O-" has been rejected by the lexer, after a call that has
\* left the boards of a game and an interpreter whose white king has moved
C16_Witness ==
    /\ pc = "rejected"
    /\ data = <<"O", "-">>
    /\ error.kind = "LexerError"
    /\ interp.white_king_moved
    /\ Len(bd.memory_boards) = 3

\* the side whose turn the k-th half-move of a game is
SideOf(k) == IF k % 2 = 1 THEN "W" ELSE "B"

\* the cells that hold a piece on the board k + 1 of the history which they
\* did not hold on the board k
Arrived(k) ==
    {sq \in (0..7) \X (0..7) :
        /\ Cell(Snapshot(k + 1), sq[1], sq[2]) # Cell(Snapshot(k), sq[1], sq[2])
        /\ ~IsEmpty(Cell(Snapshot(k + 1), sq[1], sq[2]))}

\* C17: in the history of a resolved game the k-th board after the start
\* differs from the one before it by pieces of White arriving when k is odd
\* and of Black when k is even.
C17_SidesAlternate ==
    pc = "resolved" =>
        \A k \in 1..Applied : \A sq \in Arrived(k) :
            Cell(Snapshot(k + 1), sq[1], sq[2])[1] = SideOf(k)

\* C18: after a castle, a rook move written without a disambiguator is
\* applied from a square of the target's rank or file with only empty
\* squares between it and the target, the squares the castle vacated
\* counting as empty, and it is not refused while a rook stands on such a
\* square.
C18_VacatedIsEmpty ==
    /\ \A k \in 1..Applied :
          LET hm == Halves(nodes)[k] IN
          (Plain(hm, "R") /\ ~NoCastleBefore(k)) =>
              \E o \in ClearLine(Snapshot(k), TargetOf(hm), Piece(hm.color, "R")) :
                  Snapshot(k + 1) = MovedOn(Snapshot(k), o, TargetOf(hm), Piece(hm.color, "R"))
    /\ (pc = "rejected" /\ Applied < Len(Halves(nodes))) =>
          LET hm == Halves(nodes)[Applied + 1] IN
          (Plain(hm, "R") /\ ~NoCastleBefore(Applied + 1)) =>
              ClearLine(Snapshot(Applied + 1), TargetOf(hm), Piece(hm.color, "R")) = {}

\* the header nodes parsed so far, and the header tokens of the lexer
DetailNodes == SelectSeq(nodes, LAMBDA n : n.node_type = "detail")
HeaderTokens == SelectSeq(lexer.tokens, LAMBDA tk : tk.type = TT_GAME_DATA)

\* C19: every header node the parser has made comes from a header token
\* whose raw value is the node's value between two double quotes: a raw
\* value that lacks a quote at either end makes no node, and no character
\* of it is dropped.
C19_QuotedBothEnds ==
    \A j \in 1..Len(DetailNodes) :
        HeaderTokens[j].header_value = Quoted(DetailNodes[j].value)

\* the half-move hm is a pawn capture, on the position g, by a pawn that
\* stands diagonally behind a target square held by a piece of the other side
PieceCapture(g, hm) ==
    LET mv == hm.mv
        tf == ColOfSquare(mv.target_square)
        tr == RowOfSquare(mv.target_square)
        of == indexOf(mv.from_file[1])
        or == IF hm.color = "W" THEN tr - 1 ELSE tr + 1
    IN
    /\ mv.piece_type = <<"P">>
    /\ mv.from_file # null
    /\ (of = tf + 1 \/ of = tf - 1)
    /\ RowOK(or)
    /\ Cell(g, or, of) = Piece(hm.color, "P")
    /\ ~IsEmpty(Cell(g, tr, tf))
    /\ Cell(g, tr, tf)[1] = Opponent(hm.color)

\* C20: an applied pawn capture onto a square held by a piece of the other
\* side leaves the capturing pawn, or the piece it promotes to, on the
\* target and the origin empty; every other cell is as before, whatever
\* stands beside the capturing pawn on the target's file.
C20_CaptureTwoCells ==
    \A k \in 1..Applied :
        LET hm == Halves(nodes)[k]
            tf == ColOfSquare(hm.mv.target_square)
            tr == RowOfSquare(hm.mv.target_square)
            of == indexOf(hm.mv.from_file[1])
            or == IF hm.color = "W" THEN tr - 1 ELSE tr + 1
        IN
        PieceCapture(Snapshot(k), hm) =>
            \A r \in 0..7, f \in 0..7 :
                IF r = tr /\ f = tf
                THEN Cell(Snapshot(k + 1), r, f)
                        = IF hm.mv.from_rank = null THEN Piece(hm.color, "P")
                          ELSE <<hm.color>> \o hm.mv.from_rank
                ELSE IF r = or /\ f = of
                THEN IsEmpty(Cell(Snapshot(k + 1), r, f))
                ELSE Cell(Snapshot(k + 1), r, f) = Cell(Snapshot(k), r, f)

\* the half-move is a rook move that names the file of its rook
OnFile(hm, letter) ==
    hm.mv.piece_type = <<letter>> /\ hm.mv.from_file # null /\ hm.mv.from_rank = null

\* C21: in a game without a castle so far, a rook move that names the file
\* of its rook and was applied has moved a rook of the mover's colour from a
\* square of that file, on the target's rank or file, with only empty
\* squares between it and the target.
C21_NamedRookClear ==
    \A k \in 1..Applied :
        LET hm == Halves(nodes)[k] IN
        (OnFile(hm, "R") /\ NoCastleBefore(k)) =>
            \E o \in ClearLine(Snapshot(k), TargetOf(hm), Piece(hm.color, "R")) :
                /\ <<files[o[2] + 1]>> = hm.mv.from_file
                /\ Snapshot(k + 1) = MovedOn(Snapshot(k), o, TargetOf(hm), Piece(hm.color, "R"))

\* the squares strictly between two squares of one diagonal
BetweenDiagonal(o, t) ==
    {s \in (0..7) \X (0..7) :
        /\ Min(o[1], t[1]) < s[1] /\ s[1] < Max(o[1], t[1])
        /\ Min(o[2], t[2]) < s[2] /\ s[2] < Max(o[2], t[2])
        /\ (s[1] - t[1]) * (o[2] - t[2]) = (s[2] - t[2]) * (o[1] - t[1])}

\* the squares of the diagonals of the target that hold the piece p, with
\* only empty squares between them and the target
ClearDiagonal(g, t, p) ==
    {o \in (0..7) \X (0..7) :
        /\ o # t
        /\ (o[1] - t[1] = o[2] - t[2] \/ o[1] - t[1] = t[2] - o[2])
        /\ Cell(g, o[1], o[2]) = p
        /\ \A s \in BetweenDiagonal(o, t) : IsEmpty(Cell(g, s[1], s[2]))}

\* C22: a bishop move written without a disambiguator that was applied has
\* moved a bishop of the mover's colour from a square of a diagonal of the
\* target with only empty squares between it and the target.
C22_BishopClear ==
    \A k \in 1..Applied :
        LET hm == Halves(nodes)[k] IN
        Plain(hm, "B") =>
            \E o \in ClearDiagonal(Snapshot(k), TargetOf(hm), Piece(hm.color, "B")) :
                Snapshot(k + 1) = MovedOn(Snapshot(k), o, TargetOf(hm), Piece(hm.color, "B"))

\* the places of the result nodes among the nodes parsed so far
ResultNodes == {j \in 1..Len(nodes) : nodes[j].node_type = "result"}

\* C23: no move node follows a result node among the parsed nodes, and the
\* result of a resolved game is that of the first result node.
C23_ResultEnds ==
    /\ \A j \in ResultNodes : \A m \in (j + 1)..Len(nodes) : nodes[m].node_type # "move"
    /\ (pc = "resolved" /\ ResultNodes # {}) =>
          bd.result_str = nodes[Least(ResultNodes)].res

\* C24: between the nodes of a game and when it is resolved the en passant
\* flag is false, and it is false between the two halves of a node: after
\* the white half of any node that can come next, had it been applied.
C24_FlagCleared ==
    pc \in {"interpret", "resolved"} =>
        /\ ~bd.en_passant
        /\ pc = "interpret" =>
              \A w \in WhiteMoves :
                  LET half(s) == s.err = NoError => ~s.b.en_passant
                  IN half(interpretHalf(InterpState, w, "W"))

\* a capture en passant was applied and a later half-move after it, the flag
\* being false
C24_Witness ==
    /\ pc = "interpret"
    /\ ~bd.en_passant
    /\ \E k \in 1..(Applied - 1) :
          /\ EmptyCapture(Snapshot(k), Halves(nodes)[k])
          /\ Passed(Snapshot(k), Halves(nodes)[k]) = Piece("B", "P")
          /\ Passed(Snapshot(k + 1), Halves(nodes)[k]) = NBSP

(***************************************************************************)
(* The cells of the history                                                *)
(***************************************************************************)

Colours == {"W", "B"}
Kinds == {"P", "N", "B", "R", "Q", "K"}

\* a cell that holds a piece code: a colour and a kind
IsCode(cell) == Len(cell) = 2 /\ cell[1] \in Colours /\ cell[2] \in Kinds

\* "", " " or "&nbsp;"
IsMarker(cell) == IsEmpty(cell) \/ cell = <<" ">>

\* C25: every cell of every snapshot of the history is an empty marker or a
\* two-character code, a colour W or B and a kind P, N, B, R, Q or K, after
\* every kind of half-move, promotions and moves from an empty origin among
\* them
C25_CellsWellFormed ==
    \A k \in 1..Len(bd.memory_boards) :
        \A r \in 1..8 : \A f \in 1..8 :
            LET cell == Snapshot(k)[r][f] IN IsMarker(cell) \/ IsCode(cell)


\* the columns a castle writes: the king's, the rook's and the rook's corner
KingCol(kingside) == IF kingside THEN 6 ELSE 2
RookCol(kingside) == IF kingside THEN 5 ELSE 3
CornerCol(kingside) == IF kingside THEN 7 ELSE 0

\* the board after is the board before with the castle of color played on it
CastleFrame(before, after, color, kingside) ==
    LET r == BackRow(color) IN
    /\ Cell(after, r, KingCol(kingside)) = Piece(color, "K")
    /\ Cell(after, r, RookCol(kingside)) = Piece(color, "R")
    /\ IsEmpty(Cell(after, r, 4))
    /\ IsEmpty(Cell(after, r, CornerCol(kingside)))
    /\ \A sq \in (0..7) \X (0..7) :
          (sq[1] # r \/ sq[2] \notin {4, KingCol(kingside), RookCol(kingside), CornerCol(kingside)})
              => Cell(after, sq[1], sq[2]) = Cell(before, sq[1], sq[2])

NewlinesBefore(d, i) == Cardinality({j \in 1..i : j <= Len(d) /\ d[j] = NL})

\* C27: a LexerError carries the position of the fault, for every kind of
\* lexical failure: its line is 1 plus the number of newlines consumed
\* before the offending character and its column is at least 1
C27_ErrorPosition ==
    (pc = "rejected" /\ error.kind = "LexerError") =>
        /\ error.col >= 1
        /\ error.line = 1 + NewlinesBefore(data, lexer.curr_token_index)


\* the cells of the boards of the history, board by board
History(h, b) == [k \in 1..Len(b.memory_boards) |-> Grid(h, b.memory_boards[k])]

\* C28: rendering only reads the history: a call of init or of initFlip
\* leaves every cell of every snapshot of memory_boards as it was
C28_RenderReadsOnly ==
    [][(init \/ initFlip) => History(heap', bd') = History(heap, bd)]_vars


Squares == (0..7) \X (0..7)

\* the number of cells of the position g that hold a piece of the colour c
PiecesOf(g, c) ==
    Cardinality({sq \in Squares :
        IsCode(Cell(g, sq[1], sq[2])) /\ Cell(g, sq[1], sq[2])[1] = c})

\* the number of cells of the position g that hold the piece of the colour
\* c and the kind kd
KindCount(g, c, kd) ==
    Cardinality({sq \in Squares : Cell(g, sq[1], sq[2]) = Piece(c, kd)})

IsPromotion(mv) == mv.piece_type = <<"P">> /\ mv.from_rank # null

\* C29: no half-move increases the number of pieces: each snapshot holds, per
\* colour and in total, at most as many pieces as the one before it, as many
\* after a castle and at most one fewer after any half-move, and the count
\* of a kind of a colour rises only through a promotion
C29_NoNewPieces ==
    pc \in {"interpret", "resolved"} =>
        \A k \in 1..Applied :
            LET hm == Halves(nodes)[k]
                lost(c) == PiecesOf(Snapshot(k), c) - PiecesOf(Snapshot(k + 1), c)
            IN
            /\ \A c \in Colours : lost(c) >= 0
            /\ lost("W") + lost("B") <= 1
            /\ IsCastle(hm.mv) => lost("W") = 0 /\ lost("B") = 0
            /\ \A c \in Colours : \A kd \in Kinds :
                  KindCount(Snapshot(k + 1), c, kd) > KindCount(Snapshot(k), c, kd)
                      => IsPromotion(hm.mv)


RECURSIVE ClosingParen(_, _, _, _)
\* the place from i on of the ")" that closes depth open "(", a "{...}"
\* comment being text whatever it holds; 0 when the text ends or a newline
\* comes first
ClosingParen(d, i, depth, in_comment) ==
    IF i > Len(d) \/ d[i] = NL THEN 0
    ELSE IF in_comment THEN ClosingParen(d, i + 1, depth, d[i] # "}")
    ELSE IF d[i] = "{" THEN ClosingParen(d, i + 1, depth, TRUE)
    ELSE IF d[i] = "(" THEN ClosingParen(d, i + 1, depth + 1, FALSE)
    ELSE IF d[i] = ")"
    THEN IF depth = 1 THEN i ELSE ClosingParen(d, i + 1, depth - 1, FALSE)
    ELSE ClosingParen(d, i + 1, depth, FALSE)

\* the lexer stands on the "(" of a variation
AtVariation == pc = "lex" /\ Char(data, lexer.curr_token_index) = "("

\* C30: skipping a variation consumes exactly through the ")" that closes its
\* "(", nested variations being skipped as units and the parentheses of a
\* comment inside it being comment text, so that the next character lexed is
\* the one after that ")"; a text that ends or reaches a newline before that
\* ")" is rejected with a LexerError
C30_VariationSkipped ==
    [][(AtVariation /\ LexStep) =>
          LET k(j) ==
                  IF j = 0
                  THEN pc' = "rejected" /\ error'.kind = "LexerError"
                  ELSE /\ pc' = "lex"
                       /\ error' = NoError
                       /\ lexer'.curr_token_index = j
                       /\ lexer'.tokens = lexer.tokens
          IN k(ClosingParen(data, lexer.curr_token_index + 2, 1, FALSE))]_vars


====
